---- MODULE Spec2Model ----
(***************************************************************************)
(* Command/response protocol layer of the browser controller:              *)
(*   - WebSocketManager (server/websocket/manager.py): connection set,     *)
(*     broadcast of commands, correlation of result frames, timeout;       *)
(*   - CommandProcessor (server/core/processor.py): tab auto-fill,         *)
(*     current tab bookkeeping, conversion of exceptions into results;     *)
(*   - the command model (server/models/commands.py).                      *)
(*                                                                         *)
(* Scheduling is asyncio's: one event loop, a coroutine runs without       *)
(* interruption between two suspension points.  Every action below is one  *)
(* such uninterrupted stretch of code.                                     *)
(***************************************************************************)
EXTENDS Integers, FiniteSets, Sequences, TLC

(***************************************************************************)
(* Bounds of the model.                                                    *)
(***************************************************************************)
NumCalls == 2        \* concurrent callers of execute()
NumConns == 2        \* peer connections that may be attached at once
NumCallerIds == 1    \* distinct command_id values callers supply themselves
MaxUuid == 1         \* uuid4() values the hub draws in one run
MaxTab == 1          \* tab ids are 0..MaxTab

Calls == 1..NumCalls
Conns == 1..NumConns
TabIds == 0..MaxTab

(***************************************************************************)
(* Python values.  None is a field holding None, Absent is a key that the  *)
(* dict form of a command does not have at all.                            *)
(***************************************************************************)
None == -1
Absent == -2

CallerIds == 1..NumCallerIds
UuidIds == (NumCallerIds + 1)..(NumCallerIds + MaxUuid)
Ids == CallerIds \cup UuidIds

(***************************************************************************)
(* The command model, server/models/commands.py.                           *)
(***************************************************************************)
Kinds == {"mouse_move", "mouse_click", "mouse_scroll", "reset_mouse",
          "keyboard_type", "keyboard_press", "screenshot", "tab", "get_tabs"}

TabAction == {"open", "close", "list", "switch", "init"}

\* The command classes that declare a tab_id field.
HasTabIdField(kind) == kind \in {"screenshot", "tab"}

\* Every Command value a caller can construct (fields that play no part in
\* routing, such as dx or text, are left out).
Commands ==
    { [type |-> k, action |-> a, tab_id |-> t, command_id |-> i] :
        k \in Kinds, a \in TabAction \cup {"-"},
        t \in TabIds \cup {None, Absent}, i \in CallerIds \cup {None} }

ValidCommand(cmd) ==
    /\ cmd \in Commands
    /\ (cmd.type = "tab") <=> (cmd.action \in TabAction)
    /\ (cmd.tab_id = Absent) <=> ~HasTabIdField(cmd.type)

\* Command objects whose re-parse fails: pydantic does not validate an
\* assignment to a field, so a TabCommand can hold an action outside
\* TabAction (written "-" here; "refresh" is one) by the time it is executed.
StaleCommands ==
    { cmd \in Commands :
        cmd.type = "tab" /\ cmd.action = "-" /\ cmd.tab_id # Absent }

\* command.dict(): the fields of the command; a class without a tab_id
\* field yields a dict without that key.
CommandDict(cmd) == cmd

\* parse_command(data): the class is chosen by data["type"]; keys the class
\* does not declare are ignored by the pydantic model.
parse_command(data) ==
    [type |-> data.type,
     action |-> data.action,
     tab_id |-> IF HasTabIdField(data.type) THEN data.tab_id ELSE Absent,
     command_id |-> data.command_id]

\* parse_command(data) raises (an unknown type, or a field the class
\* rejects) instead of returning a command.
parse_fails(data) ==
    \/ data.type \notin Kinds
    \/ data.type = "tab" /\ data.action \notin TabAction

(***************************************************************************)
(* The command model in full: construction of a command class from keyword *)
(* arguments, parse_command on an untyped dict, and .dict().  A dict and a *)
(* command are records over the same fields; a key the dict does not have, *)
(* or a field the class does not declare, holds Missing (a string field),  *)
(* MissingText (a text field) or Absent (a number), and an explicit None   *)
(* holds Null, NullText or None.  Text is a sequence of tokens: a URL is   *)
(* made of scheme prefixes and a host, typed text of plain characters,     *)
(* newlines and control characters.  extra says whether the dict has a key *)
(* no command class declares.  Of the numeric fields dx stands for all     *)
(* (dy, count, amount, quality are bounded in the same way).               *)
(***************************************************************************)
Missing == "<missing>"
NoError == ""
Null == "<null>"
MissingText == <<"<missing>">>
NullText == <<"<null>">>

\* ge=-5000, le=5000 of MouseMoveCommand.dx
DxMin == -5000
DxMax == 5000

\* The keys of command_map in parse_command, lines 202-212.
command_map == Kinds

RawTypes == command_map \cup {"javascript_execute", "mouse", "", Missing}
RawActions == TabAction \cup {"refresh", Missing}
RawUrls ==
    {MissingText, NullText, <<>>, <<"host">>, <<"https://", "host">>,
     <<"ftp://", "host">>}
RawTexts == {MissingText, NullText, <<"a", "ctl", "nl">>, <<"a">>}
RawDx == {Absent, None, DxMin - 1, DxMin, 7, DxMax, DxMax + 1}
RawKeys == {Missing, "Enter"}
RawTabIds == TabIds \cup {None, Absent}
RawCommandIds == CallerIds \cup {Absent}

\* A dict with a type key alone.
Blank(t) ==
    [type |-> t, action |-> Missing, url |-> MissingText, tab_id |-> Absent,
     text |-> MissingText, dx |-> Absent, key |-> Missing,
     command_id |-> Absent, extra |-> FALSE]

\* The dicts handed to parse_command or, as keyword arguments, to a class:
\* for each type the keys its class declares, present or not, and
\* possibly a key nobody declares.
RawDicts ==
    { [Blank(t) EXCEPT !.command_id = i, !.extra = e] :
        t \in RawTypes, i \in RawCommandIds, e \in BOOLEAN }
    \cup { [Blank("tab") EXCEPT !.action = a, !.url = u, !.tab_id = t,
                                 !.extra = e] :
            a \in RawActions, u \in RawUrls, t \in RawTabIds, e \in BOOLEAN }
    \cup { [Blank(k) EXCEPT !.action = a, !.tab_id = t] :
            k \in {"tab", Missing}, a \in RawActions, t \in RawTabIds }
    \cup { [Blank("screenshot") EXCEPT !.tab_id = t, !.extra = e] :
            t \in RawTabIds, e \in BOOLEAN }
    \cup { [Blank(k) EXCEPT !.text = x, !.extra = e] :
            k \in {"keyboard_type", Missing}, x \in RawTexts, e \in BOOLEAN }
    \cup { [Blank("mouse_move") EXCEPT !.dx = d, !.extra = e] :
            d \in RawDx, e \in BOOLEAN }
    \cup { [Blank("keyboard_press") EXCEPT !.key = k, !.extra = e] :
            k \in RawKeys, e \in BOOLEAN }

\* The fields each class declares besides type and command_id.
Declares(kind, field) ==
    CASE field \in {"action", "url"} -> kind = "tab"
      [] field = "tab_id" -> kind \in {"tab", "screenshot"}
      [] field = "text" -> kind = "keyboard_type"
      [] field = "dx" -> kind = "mouse_move"
      [] field = "key" -> kind = "keyboard_press"

\* re.match(r'^https?://', v), line 145
has_scheme(v) == Len(v) > 0 /\ Head(v) \in {"http://", "https://"}

\* "if not v", line 142: None or the empty string.
falsy_text(v) == v = NullText \/ v = <<>>

\* TabCommand.validate_url raises (lines 141-143).  The validator is run
\* on a url that was passed, None included, and not on the default of a
\* url that was not (pydantic 2, which the repository's model_dump calls
\* require, with a validator declared without always=True).
validate_url_raises(v, action) ==
    /\ v # MissingText
    /\ action \in {"open", "init"}
    /\ falsy_text(v)

\* The value TabCommand.validate_url returns (lines 144-147).
validate_url(v, action) ==
    IF action \in {"open", "init"} /\ ~falsy_text(v) /\ ~has_scheme(v)
    THEN <<"https://">> \o v
    ELSE v

\* KeyboardTypeCommand.validate_text, lines 86-90: control characters other
\* than newline and tab are removed.
is_plain(ch) == ch # "ctl"
validate_text(v) == SelectSeq(v, is_plain)

\* Whether a class refuses the keyword arguments d (a ValidationError).
class_rejects(kind, d) ==
    \/ d.type \notin {Missing, kind}                        \* Literal[kind]
    \/ /\ kind = "tab"
       /\ \/ d.action \notin TabAction                      \* action: TabAction
          \/ validate_url_raises(d.url, d.action)
    \/ kind = "keyboard_type" /\ d.text \in {MissingText, NullText}
    \/ kind = "mouse_move" /\ (d.dx \in {Absent, None} \/ d.dx < DxMin \/ d.dx > DxMax)
    \/ kind = "keyboard_press" /\ d.key \in {Missing, Null}

\* The command a class builds from keyword arguments it does not refuse:
\* defaults for what is not given, validators applied to what is, keys the
\* class does not declare dropped (pydantic ignores them).
class_value(kind, d) ==
    [type |-> kind,
     action |-> IF Declares(kind, "action") THEN d.action ELSE Missing,
     url |-> IF ~Declares(kind, "url") THEN MissingText
             ELSE IF d.url = MissingText THEN NullText
             ELSE validate_url(d.url, d.action),
     tab_id |-> IF ~Declares(kind, "tab_id") THEN Absent
                ELSE IF d.tab_id = Absent THEN None ELSE d.tab_id,
     text |-> IF Declares(kind, "text") THEN validate_text(d.text) ELSE MissingText,
     dx |-> IF Declares(kind, "dx") THEN d.dx ELSE Absent,
     key |-> IF Declares(kind, "key") THEN d.key ELSE Missing,
     command_id |-> IF d.command_id = Absent THEN None ELSE d.command_id,
     extra |-> FALSE]

NoValue == Blank(Missing)

Rejected(why) == [ok |-> FALSE, error |-> why, value |-> NoValue]

\* kind(**d)
construct(kind, d) ==
    IF class_rejects(kind, d)
    THEN Rejected("validation error")
    ELSE [ok |-> TRUE, error |-> NoError, value |-> class_value(kind, d)]

\* parse_command(data), lines 196-217
parse_command_data(d) ==
    IF d.type \in {Missing, Null, ""}
    THEN Rejected("Command must have 'type' field")
    ELSE IF d.type \notin command_map
    THEN Rejected("Unknown command type")
    ELSE construct(d.type, d)

\* command.dict(): a key for every field the class declares, with the value
\* the command holds (None for a default that was never given), and no
\* other key.
to_dict(cmd) ==
    [type |-> cmd.type,
     action |-> IF Declares(cmd.type, "action") THEN cmd.action ELSE Missing,
     url |-> IF Declares(cmd.type, "url") THEN cmd.url ELSE MissingText,
     tab_id |-> IF Declares(cmd.type, "tab_id") THEN cmd.tab_id ELSE Absent,
     text |-> IF Declares(cmd.type, "text") THEN cmd.text ELSE MissingText,
     dx |-> IF Declares(cmd.type, "dx") THEN cmd.dx ELSE Absent,
     key |-> IF Declares(cmd.type, "key") THEN cmd.key ELSE Missing,
     command_id |-> cmd.command_id,
     extra |-> FALSE]

(***************************************************************************)
(* CommandProcessor._prepare_command_dict                                  *)
(***************************************************************************)

\* Mutant of should_fill_tab_id: the test for TabCommand and GetTabsCommand
\* is left out.
should_fill_tab_id_any_kind(cmd, cur) ==
    /\ HasTabIdField(cmd.type)
    /\ cmd.tab_id = None
    /\ cur # None

should_fill_tab_id(cmd, cur) ==
    /\ HasTabIdField(cmd.type)          \* hasattr(command, 'tab_id')
    /\ cmd.tab_id = None
    /\ cur # None
    /\ cmd.type # "tab"                 \* isinstance(command, TabCommand)
    /\ cmd.type # "get_tabs"            \* isinstance(command, GetTabsCommand)

\* Mutant of prepare_command_dict: the current tab is not read.
prepare_command_dict_unfilled(cmd, cur) == CommandDict(cmd)

prepare_command_dict(cmd, cur) ==
    IF should_fill_tab_id(cmd, cur)
    THEN [CommandDict(cmd) EXCEPT !.tab_id = cur]
    ELSE CommandDict(cmd)

\* The command _send_prepared_command hands to ws_manager.send_command.
prepared_command(cmd, cur) == parse_command(prepare_command_dict(cmd, cur))

(***************************************************************************)
(* Frames a peer can put on a connection (json text after json.loads).     *)
(*   type        "command_response", "event", "ping", "other", "none" (no  *)
(*               type key) or "garbage" (text json.loads rejects)          *)
(*   command_id  an id, None (null) or Absent (no such key)                *)
(*   success     "true", "false" or "missing" (no such key)                *)
(*   data        None or the tab id reported under data['tabId']           *)
(*   error       the peer's error text, or NoText                           *)
(* A peer can echo a uuid only after the hub has drawn it.                 *)
(***************************************************************************)
\* An error string that is None, missing or empty.
NoText == ""

ResultShapes ==
    { <<"true", d, NoText>> : d \in TabIds \cup {None} }
        \cup {<<"false", None, "peer error">>, <<"false", None, NoText>>,
              <<"missing", None, NoText>>}

Frames(known) ==
    { [type |-> "command_response", command_id |-> i, success |-> r[1],
       data |-> r[2], error |-> r[3]] :
        i \in known \cup {None, Absent}, r \in ResultShapes }
    \cup
    { [type |-> "none", command_id |-> i, success |-> "true", data |-> None,
       error |-> NoText] :
        i \in known \cup {None, Absent} }
    \cup
    { [type |-> t, command_id |-> Absent, success |-> "missing", data |-> None,
       error |-> NoText] :
        t \in {"event", "ping", "other", "garbage"} }

NoFrame ==
    [type |-> "-", command_id |-> None, success |-> "missing", data |-> None,
     error |-> NoText]

\* json.loads(message) as stored in the Future: the routing of the frame is
\* over, its type plays no further part.
response_data(frame) == [frame EXCEPT !.type = "-"]

NoCommand == [type |-> "-", action |-> "-", tab_id |-> Absent, command_id |-> None]

(***************************************************************************)
(* CommandResponse values handed to the caller of execute().  kind names   *)
(* where the value was built: "result" is the CommandResponse built from   *)
(* the frame in send_command, every other kind is the except branch of     *)
(* execute() wrapping the named exception.                                 *)
(***************************************************************************)
NoOutcome ==
    [kind |-> "none", success |-> FALSE, command_id |-> None, data |-> None,
     error |-> NoText]

\* the CommandResponse built from response_data, manager.py line 176
ResultOutcome(frame) ==
    [kind |-> "result", success |-> (frame.success = "true"),
     command_id |-> IF frame.command_id = Absent THEN None ELSE frame.command_id,
     data |-> frame.data, error |-> frame.error]

\* The exceptions raised below execute, named by their cause, with the
\* Python class of each: ConnectionError (manager.py lines 144 and 168),
\* TimeoutError (line 179), the RuntimeError of a set iterator whose set
\* changed size (line 159), pydantic's ValidationError, a ValueError
\* (processor.py line 75, manager.py line 176).
Exceptions ==
    {"no_peer", "send_failed", "timeout", "runtime_error", "validation",
     "malformed_result"}

exception_class(exc) ==
    CASE exc \in {"no_peer", "send_failed"} -> "ConnectionError"
      [] exc = "timeout" -> "TimeoutError"
      [] exc = "runtime_error" -> "RuntimeError"
      [] exc \in {"validation", "malformed_result"} -> "ValidationError"

\* str(e): the message each raise site gives its exception.
exception_message(exc) ==
    CASE exc = "no_peer" -> "No WebSocket connections available"
      [] exc = "send_failed" -> "Failed to send command to any connection"
      [] exc = "timeout" -> "Command timeout after 30.0s"
      [] exc = "runtime_error" -> "Set changed size during iteration"
      [] exc \in {"validation", "malformed_result"} -> "validation error"

\* Mutant of caught_by_execute: the except clauses of the /command
\* endpoint (ValueError, ConnectionError) in place of "except Exception".
caught_by_execute_narrow(exc) ==
    exception_class(exc) \in {"ValidationError", "ConnectionError"}

\* "except Exception as e", processor.py line 113: every class above derives
\* from Exception.
caught_by_execute(exc) ==
    exception_class(exc) \in
        {"ConnectionError", "TimeoutError", "RuntimeError", "ValidationError"}

\* CommandResponse(success=False, command_id=getattr(command, 'command_id', None),
\*                 error=str(e)), processor.py lines 113-119.  kind "raised"
\* stands for an exception that leaves execute.
ErrorOutcome(cmd, exc) ==
    IF caught_by_execute(exc)
    THEN [kind |-> exc, success |-> FALSE, command_id |-> cmd.command_id,
          data |-> None, error |-> exception_message(exc)]
    ELSE [kind |-> "raised", success |-> FALSE, command_id |-> None,
          data |-> None, error |-> NoText]

(***************************************************************************)
(* State.                                                                  *)
(***************************************************************************)
VARIABLES
    connections,       \* WebSocketManager.connections
    closed,            \* connections whose transport is closed while their
                       \* handler has not yet reached its finally block
    response_waiters,  \* WebSocketManager.response_waiters: id -> the call
                       \* whose Future is stored, None (no key) or Dead
    current_tab_id,    \* CommandProcessor._current_tab_id
    uuid_count,        \* number of uuid4() values drawn so far
    call,              \* the execute() coroutine of each caller
    observed,          \* what the transports and the accept loop have seen,
                       \* kept only under the specifications that watch it
    given,             \* the argument handed to a function of the command
                       \* model or of the coordinate mapping
    built,             \* what that function has made of it
    mappings,          \* CoordinateManager._mappings: tab id -> mapping
    stream             \* one process_agent_message generator, its event
                       \* queue and its conversation thread

hub_vars ==
    <<connections, closed, response_waiters, current_tab_id, uuid_count, call,
      observed, mappings, stream>>

hub_vars_but_stream ==
    <<connections, closed, response_waiters, current_tab_id, uuid_count, call,
      observed, mappings>>

vars ==
    <<connections, closed, response_waiters, current_tab_id, uuid_count, call,
      observed, given, built, mappings, stream>>

\* A Future nobody awaits any more (its caller has returned and gone).
Dead == 0

IdleCall ==
    [pc |-> "idle", cmd |-> NoCommand, wire |-> NoCommand, id |-> None,
     fut |-> "none", fut_val |-> NoFrame,
     iter_size |-> 0, pos |-> 0, sent |-> FALSE,
     timer |-> FALSE, outcome |-> NoOutcome]

(***************************************************************************)
(* The record of what happened on the wire.  recv and sent belong to the   *)
(* last step: the frame it read (json text off a connection) and the       *)
(* frames it handed to connection.send, each with whether the send went    *)
(* through.  start and tried belong to the broadcast loop of each call     *)
(* while it runs: the connection set when the loop began and the           *)
(* connections the loop has called send on.  running is the set of         *)
(* connections whose _handle_connection coroutine has begun and has not    *)
(* yet left its finally block; first and greetings belong to each of       *)
(* them: the type of the first frame handed to send on the connection      *)
(* since it was accepted, and how many greeting frames it has been sent.   *)
(***************************************************************************)
NoRecv == [conn |-> 0, type |-> "-", command_id |-> Absent]

Unobserved ==
    [on |-> FALSE, recv |-> NoRecv, sent |-> {},
     start |-> [k \in Calls |-> {}], tried |-> [k \in Calls |-> {}],
     running |-> {},
     first |-> [c \in Conns |-> "-"], greetings |-> [c \in Conns |-> 0]]

Observing == [Unobserved EXCEPT !.on = TRUE]

\* The first frame of connection c after a step that sent the frames in
\* sent and left the handlers in running at work.
first_frame(c, sent, running) ==
    IF c \notin running
    THEN "-"
    ELSE IF c \in observed.running /\ observed.first[c] # "-"
    THEN observed.first[c]
    ELSE IF \E f \in sent : f.conn = c
    THEN (CHOOSE f \in sent : f.conn = c).type
    ELSE "-"

\* The greetings connection c has been sent, after such a step.
greetings_sent(c, sent, running) ==
    IF c \notin running
    THEN 0
    ELSE (IF c \in observed.running THEN observed.greetings[c] ELSE 0)
            + Cardinality({ f \in sent : f.conn = c /\ f.type = "connected" })

\* The record after a step that read recv and sent the frames in sent.  A
\* step of the hub or of the processor calls no function on given.
Observe(recv, sent, start, tried, running) ==
    /\ observed' =
        IF observed.on
        THEN [on |-> TRUE, recv |-> recv, sent |-> sent,
              start |-> start, tried |-> tried, running |-> running,
              first |-> [c \in Conns |-> first_frame(c, sent, running)],
              greetings |-> [c \in Conns |-> greetings_sent(c, sent, running)]]
        ELSE observed
    /\ UNCHANGED <<given, built, mappings, stream>>

\* A step without input or output on any connection.
Quiet == Observe(NoRecv, {}, observed.start, observed.tried, observed.running)

\* The broadcast loop of call k is over.
LoopOver(k) ==
    Observe(NoRecv, {}, [observed.start EXCEPT ![k] = {}],
            [observed.tried EXCEPT ![k] = {}], observed.running)

\* self._mappings = {}
NoMappings == [t \in {} |-> {}]

\* No message is being processed: no generator, no queue, no thread.
NoStream ==
    [pc |-> "none", thread |-> "none", event_queue |-> <<>>,
     attached |-> FALSE, conversation_finished |-> FALSE, idle |-> FALSE,
     yielded |-> <<>>, queued |-> <<>>, events |-> 0]

InitState ==
    /\ connections = {}
    /\ closed = {}
    /\ response_waiters = [i \in Ids |-> None]
    /\ current_tab_id = None
    /\ uuid_count = 0
    /\ call = [k \in Calls |-> IdleCall]
    /\ mappings = NoMappings
    /\ stream = NoStream

\* Nothing handed to a function, nothing made.
NothingGiven == [type |-> "-"]
NothingBuilt == [stage |-> "-"]

Init ==
    /\ InitState
    /\ observed = Unobserved
    /\ given = NothingGiven
    /\ built = NothingBuilt

InitWire ==
    /\ InitState
    /\ observed = Observing
    /\ given = NothingGiven
    /\ built = NothingBuilt

TypeOK ==
    /\ connections \subseteq Conns
    /\ closed \subseteq connections
    /\ response_waiters \in [Ids -> Calls \cup {None, Dead}]
    /\ current_tab_id \in TabIds \cup {None}
    /\ uuid_count \in 0..MaxUuid
    /\ observed.running \subseteq Conns
    /\ \A k \in Calls :
        /\ call[k].pc \in {"idle", "sending", "waiting", "cancelling", "done"}
        /\ call[k].fut \in {"none", "pending", "result", "cancelled"}

IssuedUuids == (NumCallerIds + 1)..(NumCallerIds + uuid_count)

(***************************************************************************)
(* Helpers on the state.                                                   *)
(***************************************************************************)
\* execute returns out to its caller: the coroutine and its locals are gone.
\* The caller holds the command it passed and the CommandResponse it got;
\* id keeps the command_id the call was registered under, for reference.
Finish(k, out) ==
    [IdleCall EXCEPT !.pc = "done", !.outcome = out, !.id = call[k].id,
                     !.cmd = call[k].cmd]

\* A Future that is still in response_waiters when its call returns is
\* awaited by nobody from then on.
abandon(waiters, k) ==
    [i \in Ids |-> IF waiters[i] = k THEN Dead ELSE waiters[i]]

\* response_waiters.pop(command_id) / .pop(command_id, None)
pop_waiter(waiters, id) ==
    IF id \in Ids THEN [waiters EXCEPT ![id] = None] ELSE waiters

\* response_waiters[command_dict["command_id"]] = future, manager.py line 154
register_waiter(waiters, id, k) == [waiters EXCEPT ![id] = k]

\* command_dict["command_id"] after lines 148-150: the caller's id, or a
\* fresh uuid4() when the command has none.
assigned_id(cmd, n) ==
    IF cmd.command_id # None THEN cmd.command_id ELSE NumCallerIds + n + 1

\* connection.send(message) raises on a closed transport (lines 160-164).
send_ok(c) == c \notin closed

\* One call of connection.send(text): the connection, the "type" of the
\* frame (commands are sent as their own dict, without a frame type of the
\* hub's), the command if it is one, and whether send returned or raised.
SentFrame(c, type, body) ==
    [conn |-> c, type |-> type, body |-> body, ok |-> send_ok(c)]

\* Mutant of tab_after: the payload of an init or open is not looked at.
tab_after_switch_only(cmd, resp, cur) ==
    IF cmd.type = "tab" /\ resp.success
          /\ cmd.action = "switch" /\ cmd.tab_id \notin {None, 0}
    THEN cmd.tab_id
    ELSE cur

\* Mutant of tab_after: "if response.success" is left out.
tab_after_any_result(cmd, resp, cur) ==
    IF cmd.type = "tab"
    THEN IF cmd.action = "switch" /\ cmd.tab_id \notin {None, 0}
         THEN cmd.tab_id
         ELSE IF cmd.action \in {"init", "open"} /\ resp.data # None
              THEN resp.data
              ELSE cur
    ELSE cur

\* CommandProcessor._execute_tab_command, lines 155-170: the value of
\* _current_tab_id after a response to cmd.  "command.tab_id" is tested for
\* truth, so tab id 0 does not count as given.
tab_after(cmd, resp, cur) ==
    IF cmd.type = "tab" /\ resp.success
    THEN IF cmd.action = "switch" /\ cmd.tab_id \notin {None, 0}
         THEN cmd.tab_id
         ELSE IF cmd.action \in {"init", "open"} /\ resp.data # None
              THEN resp.data
              ELSE cur
    ELSE cur

\* Mutant of Cleanup: the handler ends without its finally block.
Cleanup_no_finally(c) ==
    /\ closed' = closed \ {c}
    /\ UNCHANGED <<connections, call>>

\* Mutant of Cleanup: the calls awaiting a result are failed along with
\* the connection.
Cleanup_fails_waiting(c) ==
    /\ connections' = connections \ {c}
    /\ closed' = closed \ {c}
    /\ call' = [k \in Calls |->
                   IF call[k].pc = "waiting"
                   THEN [call[k] EXCEPT !.timer = TRUE] ELSE call[k]]

\* The finally block of _handle_connection, lines 80-82.  A set iterator of
\* a broadcast in progress no longer finds the removed connection.
Cleanup(c) ==
    /\ connections' = connections \ {c}
    /\ closed' = closed \ {c}
    /\ UNCHANGED call

\* "for connection in self.connections", line 159: the set iterator walks
\* the slots of the table in one direction and never turns back.  A
\* connection is named by the slot it occupies, so the members still to
\* come are those beyond the iterator's position: one removed meanwhile is
\* not found, one added meanwhile is found only if it lands further on.
rest_of_iteration(conns, pos) == {c \in conns : c > pos}

next_connection(conns, pos) ==
    CHOOSE c \in rest_of_iteration(conns, pos) :
        \A d \in rest_of_iteration(conns, pos) : c <= d

(***************************************************************************)
(* CommandProcessor.execute up to the first suspension point: the rewrite  *)
(* (_prepare_command_dict, parse_command) and the start of send_command    *)
(* (lines 143-161: the check for peers, the id, the Future, the first      *)
(* send of the broadcast loop).                                            *)
(***************************************************************************)

\* "if not self.connections", line 143
no_peer(conns) == conns = {}

\* Mutant of ExecuteNoPeer: the Future is created and registered before the
\* connection set is looked at.
ExecuteNoPeer_registered(k, cmd) ==
    /\ call' = [call EXCEPT ![k] =
          [Finish(k, ErrorOutcome(cmd, "no_peer")) EXCEPT !.cmd = cmd]]
    /\ response_waiters' =
          IF cmd.command_id \in Ids
          THEN register_waiter(response_waiters, cmd.command_id, Dead)
          ELSE response_waiters
    /\ Quiet
    /\ UNCHANGED <<connections, closed, current_tab_id, uuid_count>>

\* ConnectionError("No WebSocket connections available"): nothing is
\* registered, nothing is sent.
ExecuteNoPeer(k, cmd) ==
    /\ call' = [call EXCEPT ![k] =
          [Finish(k, ErrorOutcome(cmd, "no_peer")) EXCEPT !.cmd = cmd]]
    /\ Quiet
    /\ UNCHANGED <<connections, closed, response_waiters, current_tab_id, uuid_count>>

ExecuteSend(k, cmd) ==
    LET p == prepared_command(cmd, current_tab_id)
        id == assigned_id(p, uuid_count)
    IN /\ (p.command_id = None => uuid_count < MaxUuid)
       /\ LET c == next_connection(connections, 0) IN
            /\ response_waiters' = register_waiter(response_waiters, id, k)
            /\ uuid_count' = IF p.command_id = None
                             THEN uuid_count + 1 ELSE uuid_count
            /\ call' = [call EXCEPT ![k] =
                  [IdleCall EXCEPT
                     !.pc = "sending", !.cmd = cmd,
                     !.wire = [p EXCEPT !.command_id = id],
                     !.id = id,
                     !.fut = "pending",
                     !.iter_size = Cardinality(connections),
                     !.pos = c,
                     !.sent = send_ok(c)]]
            /\ Observe(NoRecv,
                       {SentFrame(c, "command", [p EXCEPT !.command_id = id])},
                       [observed.start EXCEPT ![k] = connections],
                       [observed.tried EXCEPT ![k] = {c}],
                       observed.running)
            /\ UNCHANGED <<connections, closed, current_tab_id>>

\* Mutant of ExecuteInvalid: the prepared dict is put on the wire before it
\* is parsed.
ExecuteInvalid_transmitted(k, cmd) ==
    /\ call' = [call EXCEPT ![k] =
          [Finish(k, ErrorOutcome(cmd, "validation")) EXCEPT !.cmd = cmd]]
    /\ Observe(NoRecv,
               { SentFrame(c, "command", prepare_command_dict(cmd, current_tab_id)) :
                   c \in connections },
               observed.start, observed.tried, observed.running)
    /\ UNCHANGED <<connections, closed, response_waiters, current_tab_id, uuid_count>>

\* parse_command(prepared_dict) raises in _send_prepared_command (line 75):
\* send_command is never reached.
ExecuteInvalid(k, cmd) ==
    /\ call' = [call EXCEPT ![k] =
          [Finish(k, ErrorOutcome(cmd, "validation")) EXCEPT !.cmd = cmd]]
    /\ Quiet
    /\ UNCHANGED <<connections, closed, response_waiters, current_tab_id, uuid_count>>

Execute(k, cmd) ==
    /\ call[k].pc = "idle"
    /\ ValidCommand(cmd) \/ cmd \in StaleCommands
    /\ IF parse_fails(prepare_command_dict(cmd, current_tab_id))
       THEN ExecuteInvalid(k, cmd)
       ELSE IF no_peer(connections)
       THEN ExecuteNoPeer(k, cmd)
       ELSE ExecuteSend(k, cmd)

(***************************************************************************)
(* send_command resumed after "await connection.send(message)": the set    *)
(* iterator is asked for the next connection (lines 159-168).              *)
(*   - the set changed size since the loop began: RuntimeError, which the  *)
(*     loop does not catch; the waiter stays in response_waiters;          *)
(*   - a connection is left: send to it;                                   *)
(*   - none is left: give up if no send succeeded, else start wait_for.    *)
(***************************************************************************)
SendLoopStep(k) ==
    /\ call[k].pc = "sending"
    /\ IF Cardinality(connections) # call[k].iter_size
       THEN /\ call' = [call EXCEPT ![k] = Finish(k, ErrorOutcome(call[k].cmd, "runtime_error"))]
            /\ response_waiters' = abandon(response_waiters, k)
            /\ LoopOver(k)
            /\ UNCHANGED <<connections, closed, current_tab_id, uuid_count>>
       ELSE IF rest_of_iteration(connections, call[k].pos) # {}
       THEN /\ LET c == next_connection(connections, call[k].pos) IN
                 /\ call' = [call EXCEPT
                       ![k].pos = c,
                       ![k].sent = @ \/ send_ok(c)]
                 /\ Observe(NoRecv, {SentFrame(c, "command", call[k].wire)},
                            observed.start,
                            [observed.tried EXCEPT ![k] = @ \cup {c}],
                            observed.running)
            /\ UNCHANGED <<connections, closed, response_waiters,
                           current_tab_id, uuid_count>>
       ELSE IF ~call[k].sent
       THEN /\ response_waiters' =
                  abandon(pop_waiter(response_waiters, call[k].wire.command_id), k)
            /\ call' = [call EXCEPT ![k] = Finish(k, ErrorOutcome(call[k].cmd, "send_failed"))]
            /\ LoopOver(k)
            /\ UNCHANGED <<connections, closed, current_tab_id, uuid_count>>
       ELSE /\ call' = [call EXCEPT ![k].pc = "waiting", ![k].iter_size = 0,
                                     ![k].pos = 0, ![k].sent = FALSE]
            /\ LoopOver(k)
            /\ UNCHANGED <<connections, closed, response_waiters,
                           current_tab_id, uuid_count>>

(***************************************************************************)
(* asyncio.wait_for(future, timeout=config.command_timeout), lines 171-179.*)
(* wait_for sleeps on an inner waiter that is released by the Future's     *)
(* done callback or by the timer (loop.call_later), whichever comes first; *)
(* the coroutine resumes in a later pass of the event loop.                *)
(***************************************************************************)

\* Mutant of TimerFire: wait_for is given no timeout.
TimerFire_never(k) == FALSE /\ UNCHANGED vars

\* The timer of wait_for fires.  It only releases the inner waiter: the
\* Future itself is untouched until the coroutine resumes.
TimerFire(k) ==
    /\ call[k].pc = "waiting"
    /\ ~call[k].timer
    /\ call' = [call EXCEPT ![k].timer = TRUE]
    /\ Quiet
    /\ UNCHANGED <<connections, closed, response_waiters, current_tab_id, uuid_count>>

\* The result of send_command when the Future holds response_data:
\* building the CommandResponse fails when the frame has no success field
\* (a pydantic ValidationError, wrapped by execute like any exception).
response_outcome(cmd, frame) ==
    IF frame.success = "missing"
    THEN ErrorOutcome(cmd, "malformed_result")
    ELSE ResultOutcome(frame)

\* wait_for resumes.  A Future that is done yields its result, also when the
\* timer has fired meanwhile; the rest of execute runs in the same stretch
\* (_execute_tab_command's update of _current_tab_id, the return).
\* Otherwise the timer has fired: wait_for cancels the Future and suspends
\* once more (_cancel_and_wait).
WaitForResume(k) ==
    /\ call[k].pc = "waiting"
    /\ call[k].fut = "result" \/ call[k].timer
    /\ IF call[k].fut = "result"
       THEN LET out == response_outcome(call[k].cmd, call[k].fut_val) IN
            /\ call' = [call EXCEPT ![k] = Finish(k, out)]
            /\ current_tab_id' = tab_after(call[k].cmd, out, current_tab_id)
            /\ response_waiters' = abandon(response_waiters, k)
       ELSE /\ call' = [call EXCEPT ![k].pc = "cancelling", ![k].fut = "cancelled"]
            /\ UNCHANGED <<current_tab_id, response_waiters>>
    /\ Quiet
    /\ UNCHANGED <<connections, closed, uuid_count>>

\* Mutant of timeout_pop_id: the id of the command as the caller passed it
\* (None when the hub drew the id) instead of command_dict's.
timeout_pop_id_original(k) == call[k].cmd.command_id

\* The id send_command removes on asyncio.TimeoutError, line 178.
timeout_pop_id(k) == call[k].wire.command_id

\* wait_for raises TimeoutError; send_command removes the waiter (line 178)
\* and raises; execute turns the exception into a failed CommandResponse.
TimeoutReturn(k) ==
    /\ call[k].pc = "cancelling"
    /\ response_waiters' = abandon(pop_waiter(response_waiters, timeout_pop_id(k)), k)
    /\ call' = [call EXCEPT ![k] = Finish(k, ErrorOutcome(call[k].cmd, "timeout"))]
    /\ Quiet
    /\ UNCHANGED <<connections, closed, current_tab_id, uuid_count>>

\* The caller has taken the CommandResponse and is free to call again.
Collect(k) ==
    /\ call[k].pc = "done"
    /\ call' = [call EXCEPT ![k] = IdleCall]
    /\ Quiet
    /\ UNCHANGED <<connections, closed, response_waiters, current_tab_id, uuid_count>>

(***************************************************************************)
(* Inbound frames, WebSocketManager._handle_message.                       *)
(***************************************************************************)

\* Mutant of waiter_of: frames are matched to the oldest waiter in the
\* table instead of the waiter registered under the frame's id.
waiter_of_any(waiters, frame) ==
    IF frame.command_id \in Ids /\ \E i \in Ids : waiters[i] \in Calls
    THEN waiters[CHOOSE i \in Ids : waiters[i] \in Calls]
    ELSE None

\* The waiter a result frame addresses: "command_id and command_id in
\* self.response_waiters", line 117.
waiter_of(waiters, frame) ==
    IF frame.command_id \in Ids THEN waiters[frame.command_id] ELSE None

\* Mutant of may_set_result: the Future is not asked whether it is done.
may_set_result_always(k) == TRUE

\* "if not future.done()", line 119
may_set_result(k) == call[k].fut = "pending"

\* Mutant of handle_command_response: the waiter is looked up but not
\* popped, and the result is set without asking future.done().
handle_command_response_keep(frame) ==
    LET w == waiter_of(response_waiters, frame) IN
    IF w \in Calls
    THEN /\ call' = [call EXCEPT ![w].fut = "result",
                                 ![w].fut_val = response_data(frame)]
         /\ UNCHANGED response_waiters
    ELSE UNCHANGED <<response_waiters, call>>

\* Mutant of handle_command_response: a frame that addresses no waiter is
\* given to whichever call is waiting.
handle_command_response_to_any(frame) ==
    LET w == IF waiter_of(response_waiters, frame) = None
             THEN waiter_of_any(response_waiters, frame)
             ELSE waiter_of(response_waiters, frame) IN
    IF w = None
    THEN UNCHANGED <<response_waiters, call>>
    ELSE /\ response_waiters' = pop_waiter(response_waiters, frame.command_id)
         /\ IF w \in Calls /\ may_set_result(w)
            THEN call' = [call EXCEPT ![w].fut = "result",
                                      ![w].fut_val = response_data(frame)]
            ELSE UNCHANGED call

\* _handle_command_response, lines 114-122
handle_command_response(frame) ==
    LET w == waiter_of(response_waiters, frame) IN
    IF w = None
    THEN UNCHANGED <<response_waiters, call>>
    ELSE /\ response_waiters' = pop_waiter(response_waiters, frame.command_id)
         /\ IF w \in Calls /\ may_set_result(w)
            THEN call' = [call EXCEPT ![w].fut = "result",
                                      ![w].fut_val = response_data(frame)]
            ELSE UNCHANGED call

\* Mutant of reply_on: the connection is dropped for a frame that needed to
\* be answered.
reply_on_close(c) == Cleanup(c)

\* _send_pong / _send_error on the connection the frame came from.  On a
\* closed transport the send raises; raised again by the except branch of
\* _handle_message (its _send_error fails too), it ends the read loop of
\* _handle_connection, whose finally block removes the connection.
reply_on(c) ==
    IF send_ok(c)
    THEN UNCHANGED <<connections, closed, call>>
    ELSE Cleanup(c)

\* Mutant of replies: the answer goes out on every connection of the set.
replies_to_all(c, frame) ==
    { SentFrame(d, IF frame.type = "garbage" THEN "error" ELSE "pong", NoCommand) :
        d \in connections }

\* The sends _handle_message makes in answer to a frame: the error frame
\* for text that is not JSON (line 109), the pong for a ping (line 99), and
\* the error frame of "except Exception" when the pong could not be sent
\* (line 112).
replies(c, frame) ==
    IF frame.type = "garbage"
    THEN {SentFrame(c, "error", NoCommand)}
    ELSE IF send_ok(c)
    THEN {SentFrame(c, "pong", NoCommand)}
    ELSE {SentFrame(c, "pong", NoCommand), SentFrame(c, "error", NoCommand)}

\* Mutant of is_result_frame: a frame without a type is not routed to
\* _handle_command_response.
is_result_frame_typed_only(frame) == frame.type = "command_response"

\* Whether _handle_message routes the frame to _handle_command_response:
\* type "command_response", or any unrecognised type with a command_id key.
is_result_frame(frame) ==
    \/ frame.type = "command_response"
    \/ frame.type \notin {"event", "ping", "garbage"} /\ frame.command_id # Absent

\* What the record keeps of a frame read on connection c.
Recv(c, frame) ==
    [conn |-> c, type |-> frame.type, command_id |-> frame.command_id]

HandleMessage(c, frame) ==
    /\ c \in connections
    /\ frame \in Frames(CallerIds \cup IssuedUuids)
    /\ IF frame.type \in {"garbage", "ping"}
       THEN /\ reply_on(c)
            /\ Observe(Recv(c, frame), replies(c, frame),
                       observed.start, observed.tried,
                       IF send_ok(c)
                       THEN observed.running ELSE observed.running \ {c})
            /\ UNCHANGED response_waiters
       ELSE /\ Observe(Recv(c, frame), {},
                       observed.start, observed.tried, observed.running)
            /\ IF is_result_frame(frame)
               THEN handle_command_response(frame) /\ UNCHANGED <<connections, closed>>
               ELSE UNCHANGED <<connections, closed, response_waiters, call>>
    /\ UNCHANGED <<current_tab_id, uuid_count>>

(***************************************************************************)
(* Connections, WebSocketManager._handle_connection.                       *)
(***************************************************************************)

\* The coroutine of _handle_connection returns (line 83), nothing read or
\* sent on the way out.
HandlerEnds(c) ==
    Observe(NoRecv, {}, observed.start, observed.tried, observed.running \ {c})

\* Mutant of HandleConnection: the connection is added and not greeted.
HandleConnection_ungreeted(c) ==
    /\ c \notin connections
    /\ connections' = connections \cup {c}
    /\ Observe(NoRecv, {}, observed.start, observed.tried,
               observed.running \cup {c})
    /\ UNCHANGED <<closed, response_waiters, current_tab_id, uuid_count, call>>

\* A peer is accepted: added to the set and greeted (lines 58-66).
HandleConnection(c) ==
    /\ c \notin connections
    /\ connections' = connections \cup {c}
    /\ Observe(NoRecv, {SentFrame(c, "connected", NoCommand)},
               observed.start, observed.tried, observed.running \cup {c})
    /\ UNCHANGED <<closed, response_waiters, current_tab_id, uuid_count, call>>

\* A peer is accepted and is gone before the greeting: websocket.send raises
\* at once (line 66), "except Exception" logs it (76-79) and the finally
\* block removes what line 58 added, all in one stretch.
GreetingFails(c) ==
    /\ c \notin connections
    /\ connections' = (connections \cup {c}) \ {c}
    /\ Observe(NoRecv,
               {[SentFrame(c, "connected", NoCommand) EXCEPT !.ok = FALSE]},
               observed.start, observed.tried,
               (observed.running \cup {c}) \ {c})
    /\ UNCHANGED <<closed, response_waiters, current_tab_id, uuid_count, call>>

\* The peer goes away: the transport is closed, the handler has not yet run.
PeerClose(c) ==
    /\ c \in connections \ closed
    /\ closed' = closed \cup {c}
    /\ Quiet
    /\ UNCHANGED <<connections, response_waiters, current_tab_id, uuid_count, call>>

\* The read loop ends with ConnectionClosed; the finally block runs.
ConnectionCleanup(c) ==
    /\ c \in closed
    /\ Cleanup(c)
    /\ HandlerEnds(c)
    /\ UNCHANGED <<response_waiters, current_tab_id, uuid_count>>

\* A peer goes away and its handler runs before anything else touches the
\* connection: PeerClose and ConnectionCleanup in one stretch.
Disconnect(c) ==
    /\ c \in connections \ closed
    /\ Cleanup(c)
    /\ HandlerEnds(c)
    /\ UNCHANGED <<response_waiters, current_tab_id, uuid_count>>

(***************************************************************************)
(* The steps of a set of callers and a set of peers, for the set of        *)
(* commands the callers issue; how peers go away is added per              *)
(* specification.                                                          *)
(***************************************************************************)
NextOver(callers, peers, cmds) ==
    \/ \E k \in callers, cmd \in cmds : Execute(k, cmd)
    \/ \E k \in callers : SendLoopStep(k)
    \/ \E k \in callers : TimerFire(k)
    \/ \E k \in callers : WaitForResume(k)
    \/ \E k \in callers : TimeoutReturn(k)
    \/ \E k \in callers : Collect(k)
    \/ \E c \in peers, frame \in Frames(Ids) : HandleMessage(c, frame)
    \/ \E c \in peers : HandleConnection(c)

(***************************************************************************)
(* Spec: concurrent callers and several peers.  The callers send a         *)
(* screenshot of the current tab, with or without a command_id of their    *)
(* own (the hub treats every kind of command alike; SpecProc tells the     *)
(* kinds apart).  A peer that goes away is cleaned up at once.             *)
(***************************************************************************)
HubCommands ==
    { cmd \in Commands :
        ValidCommand(cmd) /\ cmd.type = "screenshot" /\ cmd.tab_id = None }

Next ==
    \/ NextOver(Calls, Conns, HubCommands)
    \/ \E c \in Conns : Disconnect(c)

Spec == Init /\ [][Next]_vars

(***************************************************************************)
(* SpecProc: one caller at a time and one peer, every kind of command,     *)
(* and the window in which a closed connection is still in the set, so     *)
(* that sends fail.                                                        *)
(***************************************************************************)
ProcCommands == { cmd \in Commands : ValidCommand(cmd) } \cup StaleCommands

NextProc ==
    \/ NextOver({1}, {1}, ProcCommands)
    \/ PeerClose(1)
    \/ ConnectionCleanup(1)

SpecProc == Init /\ [][NextProc]_vars

\* SpecTabWire: SpecProc for tab commands alone, those that pass the
\* re-parse and those that do not, with the record of the wire kept.
TabCommands == { cmd \in ProcCommands : cmd.type = "tab" }

NextTabWire ==
    \/ NextOver({1}, {1}, TabCommands)
    \/ PeerClose(1)
    \/ ConnectionCleanup(1)

SpecTabWire == InitWire /\ [][NextTabWire]_vars

(***************************************************************************)
(* CommandProcessor.health_check, and SpecHealth: one peer, an ordinary     *)
(* caller and a caller that only runs health checks (the /health           *)
(* endpoint).                                                              *)
(***************************************************************************)

\* Mutant of is_connected: the hub always reports itself unattached.
is_connected_never(conns) == FALSE

\* WebSocketManager.is_connected / get_connection_count, lines 181-187
is_connected(conns) == Cardinality(conns) > 0

get_connection_count(conns) == Cardinality(conns)

\* GetTabsCommand(), processor.py line 198
HealthCommand ==
    [type |-> "get_tabs", action |-> "-", tab_id |-> Absent, command_id |-> None]

\* "return True" of the branch without a connection (line 208), written as
\* the outcome of the call so that health_check's value is read off
\* outcome.success on both paths ("return response.success", line 200).
HealthyUnattached ==
    [kind |-> "unattached", success |-> TRUE, command_id |-> None, data |-> None,
     error |-> NoText]

HealthCaller == NumCalls

\* health_check up to its first suspension point: nothing suspends between
\* is_connected() and the test for peers in send_command.
HealthCheck(k) ==
    /\ call[k].pc = "idle"
    /\ IF is_connected(connections)
       THEN Execute(k, HealthCommand)
       ELSE /\ call' = [call EXCEPT ![k] =
                  [IdleCall EXCEPT !.pc = "done", !.outcome = HealthyUnattached]]
            /\ Quiet
            /\ UNCHANGED <<connections, closed, response_waiters,
                           current_tab_id, uuid_count>>

NextHealth ==
    \/ \E cmd \in HubCommands : Execute(1, cmd)
    \/ HealthCheck(HealthCaller)
    \/ \E k \in Calls : SendLoopStep(k)
    \/ \E k \in Calls : TimerFire(k)
    \/ \E k \in Calls : WaitForResume(k)
    \/ \E k \in Calls : TimeoutReturn(k)
    \/ \E k \in Calls : Collect(k)
    \/ \E frame \in Frames(Ids) : HandleMessage(1, frame)
    \/ HandleConnection(1)
    \/ PeerClose(1)
    \/ ConnectionCleanup(1)

SpecHealth == Init /\ [][NextHealth]_vars

(***************************************************************************)
(* SpecWire: one caller and several peers, with the record of the wire     *)
(* kept.  A peer that goes away stays in the set until its handler has     *)
(* noticed, so that a broadcast meets open and closed connections and the  *)
(* set changes under it in every way the event loop allows.                *)
(***************************************************************************)
WireCallers == {1}

NextWire ==
    \/ NextOver(WireCallers, Conns, HubCommands)
    \/ \E c \in Conns : PeerClose(c)
    \/ \E c \in Conns : ConnectionCleanup(c)
    \/ \E c \in Conns : GreetingFails(c)

SpecWire == InitWire /\ [][NextWire]_vars

(***************************************************************************)
(* SpecModel: the command model on its own.  A dict is given; it is parsed *)
(* by parse_command or handed to a command class as keyword arguments, and *)
(* a command that results is serialized and parsed again, as               *)
(* _send_prepared_command does with every command it is given.             *)
(***************************************************************************)
NotRun == Rejected("not run")

NotBuilt == [stage |-> "given", by |-> "-", first |-> NotRun, again |-> NotRun]

InitModel ==
    /\ InitState
    /\ observed = Unobserved
    /\ given \in RawDicts
    /\ built = NotBuilt

\* parse_command(given)
Parse ==
    /\ built.stage = "given"
    /\ built' = [NotBuilt EXCEPT !.stage = "built", !.by = "parse_command",
                                 !.first = parse_command_data(given)]
    /\ UNCHANGED <<hub_vars, given>>

\* kind(**given), for the class of the dict's type or, when the dict names
\* none, for any class.
Construct(kind) ==
    /\ built.stage = "given"
    /\ given.type \in {Missing, kind}
    /\ built' = [NotBuilt EXCEPT !.stage = "built", !.by = kind,
                                 !.first = construct(kind, given)]
    /\ UNCHANGED <<hub_vars, given>>

\* parse_command(command.dict()), processor.py lines 72-75, for a command
\* no tab id is filled into.
Reparse ==
    /\ built.stage = "built"
    /\ built.first.ok
    /\ built' = [built EXCEPT !.stage = "parsed again",
                              !.again = parse_command_data(to_dict(built.first.value))]
    /\ UNCHANGED <<hub_vars, given>>

NextModel ==
    \/ Parse
    \/ \E kind \in command_map : Construct(kind)
    \/ Reparse

SpecModel == InitModel /\ [][NextModel]_vars

\* ---------------------------------------------------------------------
\* Coordinate mapping (coordinates.py): pure functions of a mapping and a
\* point, applied to inputs drawn by InitCoord.

MaxDim == 3

\* Widths and heights a CoordinateMapping can be constructed with:
\* __post_init__ raises for anything that is not positive.
Dims == 1..MaxDim

\* Coordinates and deltas handed to the functions: negative ones, ones
\* inside every mapping and ones beyond the largest.
Coords == -2..MaxDim

\* viewport_width / viewport_height: None until recorded; any integer the
\* peer reports afterwards, zero included.
Viewports == {None} \cup (0..MaxDim)

\* Pixel sizes of a captured image, as the caller passes them.
ShotDims == 0..MaxDim

Mapping(pw, ph, aw, ah, vw, vh) ==
    [preset_width |-> pw, preset_height |-> ph,
     actual_width |-> aw, actual_height |-> ah,
     viewport_width |-> vw, viewport_height |-> vh]

Mappings ==
    {Mapping(pw, ph, aw, ah, None, None) : pw \in Dims, ph \in Dims,
                                            aw \in Dims, ah \in Dims}

\* Mappings of the default preset resolution (config.py line 11) to a
\* display twice its size and to a 1512 x 982 display.
ScenarioMappings ==
    {Mapping(1280, 720, 2560, 1440, None, None),
     Mapping(1280, 720, 1512, 982, None, None)}

ScenarioPoints == {<<640, 360>>, <<10, -10>>, <<800, 360>>}

\* Mappings whose viewport may have been recorded (update_viewport); the
\* resolutions, which screenshot_to_viewport does not read, are held fixed.
ViewportMappings ==
    {Mapping(1, 1, 1, 1, vw, vh) : vw \in Viewports, vh \in Viewports}

CoordInput(m, x, y, sw, sh) ==
    [mapping |-> m, x |-> x, y |-> y,
     screenshot_width |-> sw, screenshot_height |-> sh]

CoordInputs ==
    {CoordInput(m, x, y, 1, 1) : m \in Mappings, x \in Coords, y \in Coords}
    \cup {CoordInput(m, p[1], p[2], 1, 1) :
              m \in ScenarioMappings, p \in ScenarioPoints}
    \cup {CoordInput(m, x, y, sw, sh) :
              m \in ViewportMappings, x \in Coords, y \in Coords,
              sw \in ShotDims, sh \in ShotDims}

abs(n) == IF n < 0 THEN -n ELSE n

max(a, b) == IF a >= b THEN a ELSE b

min(a, b) == IF a <= b THEN a ELSE b

\* int(q) of the quotient q = n / d, d > 0: Python truncates toward zero.
trunc(n, d) == IF n >= 0 THEN n \div d ELSE -((-n) \div d)

\* The triples <<|v|, actual, preset>> among the inputs drawn here for which
\* the float v * (actual / preset) lies below the whole number v * actual /
\* preset: 1512 / 1280 is not a binary64 number, the nearest one is smaller,
\* and 800 times it is 944.9999999999999.  No other product, and no
\* quotient of lines 76-77 or 119-120, over these inputs lands on the
\* wrong side of a whole number.
ProductRoundsBelow == {<<800, 1512, 1280>>}

\* int(v * self.scale_x) with scale_x = actual / preset
int_of_product(v, actual, preset) ==
    IF <<abs(v), actual, preset>> \in ProductRoundsBelow
    THEN (IF v < 0 THEN -1 ELSE 1) * (((abs(v) * actual) \div preset) - 1)
    ELSE trunc(v * actual, preset)

\* Mutant of int_of_quotient: the inverse multiplies by the scale factor.
int_of_quotient_as_product(v, actual, preset) == trunc(v * actual, preset)

\* int(v / self.scale_x) if self.scale_x > 0 else 0
int_of_quotient(v, actual, preset) ==
    IF actual > 0 THEN trunc(v * preset, actual) ELSE 0

\* int((v / size) * viewport), for a size that is not zero
int_of_fraction(v, size, viewport) == trunc(v * viewport, size)

NoPoint == <<0, 0>>

ReturnsPoint(p) == [ok |-> TRUE, value |-> p, error |-> NoError]

Raised(why) == [ok |-> FALSE, value |-> NoPoint, error |-> why]

preset_to_actual(m, x, y) ==
    LET cx == max(0, min(x, m.preset_width - 1))
        cy == max(0, min(y, m.preset_height - 1))
        actual_x == int_of_product(cx, m.actual_width, m.preset_width)
        actual_y == int_of_product(cy, m.actual_height, m.preset_height)
    IN  ReturnsPoint(<<max(0, min(actual_x, m.actual_width - 1)),
                   max(0, min(actual_y, m.actual_height - 1))>>)

actual_to_preset(m, x, y) ==
    LET cx == max(0, min(x, m.actual_width - 1))
        cy == max(0, min(y, m.actual_height - 1))
        preset_x == int_of_quotient(cx, m.actual_width, m.preset_width)
        preset_y == int_of_quotient(cy, m.actual_height, m.preset_height)
    IN  ReturnsPoint(<<max(0, min(preset_x, m.preset_width - 1)),
                   max(0, min(preset_y, m.preset_height - 1))>>)

\* Mutant of relative_preset_to_actual: the delta is treated as a point.
relative_clamped(m, dx, dy) == preset_to_actual(m, dx, dy)

\* int(dx * self.scale_x), int(dy * self.scale_y): nothing is clamped.
relative_preset_to_actual(m, dx, dy) ==
    ReturnsPoint(<<int_of_product(dx, m.actual_width, m.preset_width),
               int_of_product(dy, m.actual_height, m.preset_height)>>)

\* Mutant of viewport_unset: only the width is looked at.
viewport_unset_width_only(m) == m.viewport_width \in {None, 0}

\* not self.viewport_width or not self.viewport_height
viewport_unset(m) ==
    \/ m.viewport_width \in {None, 0}
    \/ m.viewport_height \in {None, 0}

screenshot_to_viewport(m, x, y, sw, sh) ==
    IF viewport_unset(m) THEN Raised("Viewport dimensions not set")
    ELSE IF sw = 0 \/ sh = 0 THEN Raised("ZeroDivisionError")
    ELSE LET viewport_x == int_of_fraction(x, sw, m.viewport_width)
             viewport_y == int_of_fraction(y, sh, m.viewport_height)
         IN  ReturnsPoint(<<max(0, min(viewport_x, m.viewport_width - 1)),
                        max(0, min(viewport_y, m.viewport_height - 1))>>)

\* mapping.actual_to_preset(*mapping.preset_to_actual(x, y))
round_trip(m, x, y) ==
    LET there == preset_to_actual(m, x, y).value
    IN  actual_to_preset(m, there[1], there[2])

NotMapped == [stage |-> "given", by |-> "-", result |-> Raised("not run")]

InitCoord ==
    /\ InitState
    /\ observed = Unobserved
    /\ given \in CoordInputs
    /\ built = NotMapped

Mapped(by, result) == [stage |-> "mapped", by |-> by, result |-> result]

PresetToActual ==
    /\ built.stage = "given"
    /\ built' = Mapped("preset_to_actual",
                       preset_to_actual(given.mapping, given.x, given.y))
    /\ UNCHANGED <<hub_vars, given>>

ActualToPreset ==
    /\ built.stage = "given"
    /\ built' = Mapped("actual_to_preset",
                       actual_to_preset(given.mapping, given.x, given.y))
    /\ UNCHANGED <<hub_vars, given>>

RelativePresetToActual ==
    /\ built.stage = "given"
    /\ built' = Mapped("relative_preset_to_actual",
                       relative_preset_to_actual(given.mapping,
                                                 given.x, given.y))
    /\ UNCHANGED <<hub_vars, given>>

ScreenshotToViewport ==
    /\ built.stage = "given"
    /\ built' = Mapped("screenshot_to_viewport",
                       screenshot_to_viewport(given.mapping, given.x, given.y,
                                              given.screenshot_width,
                                              given.screenshot_height))
    /\ UNCHANGED <<hub_vars, given>>

\* preset_to_actual, then actual_to_preset of what it returned.
RoundTrip ==
    /\ built.stage = "given"
    /\ built' = Mapped("round_trip",
                       round_trip(given.mapping, given.x, given.y))
    /\ UNCHANGED <<hub_vars, given>>

NextCoord ==
    \/ PresetToActual
    \/ ActualToPreset
    \/ RelativePresetToActual
    \/ ScreenshotToViewport
    \/ RoundTrip

SpecCoord == InitCoord /\ [][NextCoord]_vars

\* ---------------------------------------------------------------------
\* CoordinateManager (coordinates.py 129-179) next to the processor: tab
\* commands run as under SpecProc while mappings are created and removed
\* through the manager.

\* Render sizes a peer may report for a tab.
ActualSizes == {<<2560, 1440>>, <<1512, 982>>}

\* create_mapping(tab_id, actual_width, actual_height): a mapping from the
\* default preset resolution, put in place of whatever the tab had.
CreateMapping(t, size) ==
    /\ mappings' = [u \in DOMAIN mappings \cup {t} |->
                        IF u = t
                        THEN Mapping(1280, 720, size[1], size[2], None, None)
                        ELSE mappings[u]]
    /\ UNCHANGED <<connections, closed, response_waiters, current_tab_id,
                   uuid_count, call, observed, given, built, stream>>

\* remove_mapping(tab_id): self._mappings.pop(tab_id, None)
RemoveMapping(t) ==
    /\ mappings' = [u \in DOMAIN mappings \ {t} |-> mappings[u]]
    /\ UNCHANGED <<connections, closed, response_waiters, current_tab_id,
                   uuid_count, call, observed, given, built, stream>>

\* Tab commands that leave their correlation id to the hub.
ManagedCommands == { cmd \in TabCommands : cmd.command_id = None }

NextManaged ==
    \/ NextOver({1}, {1}, ManagedCommands)
    \/ PeerClose(1)
    \/ ConnectionCleanup(1)
    \/ \E t \in TabIds, size \in ActualSizes : CreateMapping(t, size)
    \/ \E t \in TabIds : RemoveMapping(t)

SpecManaged == Init /\ [][NextManaged]_vars

\* ---------------------------------------------------------------------
\* SpecSession: two callers on one event loop and one peer that stays.  A
\* caller switches tabs under a correlation id of its own or takes a
\* screenshot of the current tab under an id the hub assigns, so that the
\* rewrite of one call falls between the dispatch and the result of another.
SessionCommands ==
    { cmd \in Commands :
        /\ ValidCommand(cmd)
        /\ \/ cmd.type = "screenshot" /\ cmd.tab_id = None
                                     /\ cmd.command_id = None
           \/ cmd.type = "tab" /\ cmd.action = "switch"
                               /\ cmd.command_id # None }

NextSession == NextOver(Calls, {1}, SessionCommands)

SpecSession == Init /\ [][NextSession]_vars

(***************************************************************************)
(* process_agent_message, server/agent/agent.py: an async generator that   *)
(* starts a thread running the conversation and yields what the thread     *)
(* and the conversation's visualizer put into a queue.  The generator and  *)
(* the thread run in parallel; the consumer reads the generator to its     *)
(* end, at its own pace.  Time is kept as one bit, idle: timeout_seconds   *)
(* have gone by since last_event_time.  yielded and queued are the history *)
(* of the SSE events handed to the consumer and of those put into the      *)
(* queue; events counts the calls of on_event.                             *)
(***************************************************************************)
MaxEvents == 3

\* SSEEvent(event_type, data); by tells whose data it carries.
SSEEvent(type, by, n) == [type |-> type, by |-> by, n |-> n]

\* event_queue.get(remaining_time) in the executor (lines 550-552): the
\* argument lands in the parameter block of Queue.get(block, timeout), so
\* the call waits without a time limit and returns only with an item.
queue_get_returns(q, idle) == q # <<>>

\* Lines 438-520: the queue is made and set on the visualizer, the thread
\* is started, last_event_time is taken.
ProcessAgentMessage ==
    /\ stream.pc = "none"
    /\ stream' = [NoStream EXCEPT !.pc = "top", !.thread = "running",
                                  !.attached = TRUE]
    /\ UNCHANGED <<hub_vars_but_stream, given, built>>

\* event_queue.put(e)
put(e) ==
    [stream EXCEPT !.event_queue = Append(@, e), !.queued = Append(@, e)]

\* QueueVisualizer.on_event, called by the conversation while it runs:
\* nothing without a queue; else an agent_event is put, or, when building
\* it raised, an error event.
OnEvent(fails) ==
    /\ stream.thread = "running"
    /\ stream.events < MaxEvents
    /\ LET n == stream.events + 1 IN
         stream' = IF ~stream.attached
                   THEN [stream EXCEPT !.events = n]
                   ELSE [put(SSEEvent(IF fails THEN "error" ELSE "agent_event",
                                      "on_event", n))
                            EXCEPT !.events = n]
    /\ UNCHANGED <<hub_vars_but_stream, given, built>>

\* run_conversation, lines 467-491: send_message and run came back and the
\* complete event is put.
RunReturns ==
    /\ stream.thread = "running"
    /\ stream' = [put(SSEEvent("complete", "run_conversation", 0))
                     EXCEPT !.thread = "leaving"]
    /\ UNCHANGED <<hub_vars_but_stream, given, built>>

\* run_conversation, lines 494-504: send_message or run raised and the
\* error event is put.
RunRaises ==
    /\ stream.thread = "running"
    /\ stream' = [put(SSEEvent("error", "run_conversation", 0))
                     EXCEPT !.thread = "leaving"]
    /\ UNCHANGED <<hub_vars_but_stream, given, built>>

\* run_conversation, lines 505-510: the finally block.
RunFinally ==
    /\ stream.thread = "leaving"
    /\ stream' = [stream EXCEPT !.thread = "finished",
                                !.conversation_finished = TRUE]
    /\ UNCHANGED <<hub_vars_but_stream, given, built>>

\* timeout_seconds go by without last_event_time being set anew, while the
\* generator waits for the queue or for its consumer.
IdleElapses ==
    /\ stream.pc \in {"getting", "yielded"}
    /\ ~stream.idle
    /\ stream' = [stream EXCEPT !.idle = TRUE]
    /\ UNCHANGED <<hub_vars_but_stream, given, built>>

\* The head of the while loop, lines 522-548: leave when the thread has
\* finished and the queue is empty; yield the timeout error and leave when
\* the idle time is over; else call get in the executor.
LoopTop ==
    /\ stream.pc = "top"
    /\ stream' =
         IF stream.conversation_finished /\ stream.event_queue = <<>>
         THEN [stream EXCEPT !.pc = "joining"]
         ELSE IF stream.idle
         THEN [stream EXCEPT !.pc = "joining",
                             !.yielded = Append(@, SSEEvent("error", "timeout", 0))]
         ELSE [stream EXCEPT !.pc = "getting"]
    /\ UNCHANGED <<hub_vars_but_stream, given, built>>

\* The get of lines 550-552 returns (or, were it to raise queue.Empty, the
\* loop starts over, lines 556-559).  An item resets last_event_time and
\* is yielded, lines 554-591; an error ends the loop, a complete event
\* leads to the drain.
Get ==
    /\ stream.pc = "getting"
    /\ queue_get_returns(stream.event_queue, stream.idle)
    /\ stream' =
         IF stream.event_queue = <<>>
         THEN [stream EXCEPT !.pc = "top"]
         ELSE LET e == Head(stream.event_queue) IN
              [stream EXCEPT
                 !.event_queue = Tail(@),
                 !.idle = FALSE,
                 !.yielded = Append(@, e),
                 !.pc = IF e.type = "error" THEN "joining"
                        ELSE IF e.type = "complete" THEN "draining"
                        ELSE "yielded"]
    /\ UNCHANGED <<hub_vars_but_stream, given, built>>

\* The consumer asks for the next item: the generator goes on after the
\* yield of line 591, at the head of the loop.
Resume ==
    /\ stream.pc = "yielded"
    /\ stream' = [stream EXCEPT !.pc = "top"]
    /\ UNCHANGED <<hub_vars_but_stream, given, built>>

\* Lines 571-584: after a complete event, what get_nowait still finds is
\* yielded, item by item, until the queue is empty.
Drain ==
    /\ stream.pc = "draining"
    /\ stream' =
         IF stream.event_queue = <<>>
         THEN [stream EXCEPT !.pc = "joining"]
         ELSE [stream EXCEPT !.event_queue = Tail(@),
                             !.yielded = Append(@, Head(stream.event_queue))]
    /\ UNCHANGED <<hub_vars_but_stream, given, built>>

\* Lines 602-608: join(5.0) returns, with the thread finished or not, and
\* the finally block takes the queue off the visualizer.
Join ==
    /\ stream.pc = "joining"
    /\ stream' = [stream EXCEPT !.pc = "ended", !.attached = FALSE]
    /\ UNCHANGED <<hub_vars_but_stream, given, built>>

StreamSteps == LoopTop \/ Get \/ Resume \/ Drain \/ Join

NextStream ==
    \/ ProcessAgentMessage
    \/ \E fails \in BOOLEAN : OnEvent(fails)
    \/ RunReturns
    \/ RunRaises
    \/ RunFinally
    \/ IdleElapses
    \/ LoopTop
    \/ Get
    \/ Resume
    \/ Drain
    \/ Join

SpecStream == Init /\ [][NextStream]_vars

\* The generator and the clock always get their turn; the conversation
\* thread may hang for ever.
FairSpecStream ==
    /\ SpecStream
    /\ WF_vars(StreamSteps)
    /\ WF_vars(IdleElapses)

(***************************************************************************)
(* FairSpec: Spec with the progress the event loop gives a coroutine: one  *)
(* that can resume is resumed (its send has completed, its Future is done  *)
(* or its waiter released), and a timer that is armed fires.  Nothing is   *)
(* assumed of the peers or of the callers.                                 *)
(***************************************************************************)
Fairness ==
    \A k \in Calls :
        /\ WF_vars(SendLoopStep(k))
        /\ WF_vars(TimerFire(k))
        /\ WF_vars(WaitForResume(k))
        /\ WF_vars(TimeoutReturn(k))

FairSpec == Spec /\ Fairness

(***************************************************************************)
(* Properties.                                                             *)
(***************************************************************************)
InFlight(k) == call[k].pc \in {"sending", "waiting", "cancelling"}

\* The step in which execute hands its CommandResponse to caller k.
Returns(k) == call[k].pc # "done" /\ call'[k].pc = "done"

\* The result frames a peer can send under correlation id i.
ResultFramesFor(i) == { f \in Frames(Ids) : f.command_id = i }

\* C1: a dispatch that returns a peer result returns the frame that carries
\* the dispatch's own correlation id, with that frame's success flag and
\* payload; no call's Future ever holds a frame with another id.
C1_OwnResult ==
    [][\A k \in Calls :
        /\ call'[k].fut = "result" => call'[k].fut_val.command_id = call'[k].id
        /\ (Returns(k) /\ call'[k].outcome.kind = "result") =>
              /\ call[k].fut = "result"
              /\ call'[k].outcome.command_id = call[k].id
              /\ call'[k].outcome.success = (call[k].fut_val.success = "true")
              /\ call'[k].outcome.data = call[k].fut_val.data]_vars

\* Two dispatches with distinct ids are in flight at once and each holds a
\* result frame, with different payloads.
C1_Witness ==
    /\ call[1].pc = "waiting" /\ call[2].pc = "waiting"
    /\ call[1].id # call[2].id
    /\ call[1].fut = "result" /\ call[2].fut = "result"
    /\ call[1].fut_val.data = None /\ call[2].fut_val.data = MaxTab

\* C2: every dispatch hands exactly one outcome to its caller: a call in
\* flight can only go on or return, a returned call carries one outcome that
\* stays as it is, and once a result frame is in the call's Future every
\* further frame leaves it untouched (the first answer wins); an answer is
\* delivered only in the step that takes the call's waiter out of the
\* table, so a further answer finds no waiter and resolves nobody.
C2_ExactlyOneOutcome ==
    [][\A k \in Calls :
        /\ (call'[k].pc = "done") <=> (call'[k].outcome.kind # "none")
        /\ InFlight(k) => call'[k].pc \in {"sending", "waiting", "cancelling", "done"}
        /\ (call[k].pc = "done" /\ call'[k].pc = "done") =>
              call'[k].outcome = call[k].outcome
        /\ (call[k].fut = "result" /\ call'[k].pc \notin {"done", "idle"}) =>
              /\ call'[k].fut = "result"
              /\ call'[k].fut_val = call[k].fut_val
        /\ (call[k].fut = "pending" /\ call'[k].fut = "result") =>
              /\ response_waiters[call[k].id] = k
              /\ response_waiters'[call[k].id] = None]_vars

\* A call has returned the first answer while two peers are attached and
\* nothing waits under its id any more: a second answer can only be dropped.
C2_Witness ==
    \E k \in Calls :
        /\ call[k].pc = "done" /\ call[k].outcome.kind = "result"
        /\ Cardinality(connections) = 2
        /\ response_waiters[call[k].id] = None

\* C3: a command executed while the connection set is empty fails at once
\* with the "no peer" error; nothing is sent and response_waiters is the same
\* before and after.
C3_NoPeerFailsFast ==
    [][\A k \in Calls :
        (call[k].pc = "idle" /\ call'[k].pc # "idle" /\ connections = {}) =>
            /\ call'[k].pc = "done"
            /\ call'[k].outcome.kind = "no_peer"
            /\ ~call'[k].outcome.success
            /\ call'[k].wire = NoCommand
            /\ response_waiters' = response_waiters
            /\ uuid_count' = uuid_count]_vars

\* A call has failed with "no peer" while another call's waiter is still in
\* the table.
C3_Witness ==
    \E k, j \in Calls :
        /\ call[k].pc = "done" /\ call[k].outcome.kind = "no_peer"
        /\ call[j].pc = "waiting" /\ response_waiters[call[j].id] = j

C5_ResolvedXorExpired ==
    [][\A k \in Calls :
        /\ call[k].fut = "cancelled" => call'[k].fut \in {"cancelled", "none"}
        /\ call[k].fut = "result" => call'[k].fut \in {"result", "none"}
        /\ (Returns(k) /\ call[k].pc = "waiting" /\ call[k].fut = "result") =>
              call'[k].outcome.kind \in {"result", "malformed_result"}
        /\ (Returns(k) /\ call[k].fut = "cancelled") =>
              call'[k].outcome.kind = "timeout"
        /\ (call[k].fut = "cancelled" /\ call'[k].pc = "cancelling") =>
              call'[k] = call[k]
        /\ (InFlight(k) /\ \A i \in Ids : response_waiters[i] # k) =>
              \A i \in Ids : response_waiters'[i] # k
        /\ call'[k].fut = "result" => \A i \in Ids : response_waiters'[i] # k
        /\ (Returns(k) /\ call'[k].outcome.kind \in {"result", "malformed_result", "timeout"}) =>
              \A i \in Ids : response_waiters[i] = k => response_waiters'[i] = None]_vars

\* Both races at once: one call holds a result and its timer has fired too;
\* another call, under a different id, has expired and its waiter has already
\* been taken out of the table by a frame that came too late.
C5_Witness ==
    \E k, j \in Calls :
        /\ call[k].pc = "waiting" /\ call[k].fut = "result" /\ call[k].timer
        /\ call[j].pc = "cancelling" /\ call[j].fut = "cancelled"
        /\ call[j].id # call[k].id
        /\ response_waiters[call[j].id] = None

\* C6: no two dispatches in flight share a correlation id, also when the
\* callers supply the command_id themselves.
C6_NoSharedLiveId ==
    \A a, b \in Calls :
        (a # b /\ InFlight(a) /\ InFlight(b)) => call[a].id # call[b].id

\* C7: once a dispatch under id X has ended by timeout, no frame carrying X
\* is ever put into the Future of a call, a later dispatch's included.
C7_ExpiredIdPoisoned ==
    [][\A a, b \in Calls :
        (/\ call[a].pc = "done" /\ call[a].outcome.kind = "timeout"
         /\ a # b /\ call[b].id = call[a].id /\ call[b].fut = "pending")
        => call'[b].fut # "result"]_vars

ActiveTabKinds ==
    {"mouse_move", "mouse_click", "reset_mouse", "mouse_scroll",
     "keyboard_type", "keyboard_press", "screenshot"}

\* The step in which send_command registers and broadcasts the command of k.
Dispatches(k) == call[k].pc = "idle" /\ call'[k].pc = "sending"

\* C9: a pointer, scroll, keyboard or screenshot command executed without a
\* tab id while current_tab_id is T is broadcast with tab id T; one that
\* names a tab keeps its own.
C9_ActiveTabFilled ==
    [][\A k \in Calls :
        (Dispatches(k) /\ call'[k].cmd.type \in ActiveTabKinds) =>
            IF call'[k].cmd.tab_id \in TabIds
            THEN call'[k].wire.tab_id = call'[k].cmd.tab_id
            ELSE current_tab_id # None => call'[k].wire.tab_id = current_tab_id]_vars

\* C10: a tab operation or a list-tabs command is broadcast with the tab id,
\* or the absence of one, that the caller gave it, whatever current_tab_id is.
C10_TabCommandsNotFilled ==
    [][\A k \in Calls :
        (Dispatches(k) /\ call'[k].cmd.type \in {"tab", "get_tabs"}) =>
            call'[k].wire.tab_id = call'[k].cmd.tab_id]_vars

\* A tab operation without a tab id is on the wire, still without one,
\* while a current tab is set.
C10_Witness ==
    \E k \in Calls :
        /\ InFlight(k) /\ call[k].cmd.type = "tab" /\ call[k].cmd.tab_id = None
        /\ current_tab_id # None
        /\ call[k].wire.tab_id = None

\* The call of k has returned to its caller with the peer's result.
Returned(k) == call[k].pc = "done" /\ call[k].outcome.kind = "result"

\* A switch, init or open of k returns with a successful result in this step.
TabChangeCompletes(k) ==
    /\ Returns(k)
    /\ call'[k].cmd.type = "tab"
    /\ call'[k].cmd.action \in {"switch", "init", "open"}
    /\ call'[k].outcome.kind = "result"
    /\ call'[k].outcome.success

\* C11: when a switch to tab T returns a successful result, current_tab_id
\* is T, for every tab id T, and it keeps its value until a switch, init or
\* open completes successfully.
C11_SwitchSetsCurrentTab ==
    [][/\ \A k \in Calls :
            (/\ TabChangeCompletes(k)
             /\ call'[k].cmd.action = "switch"
             /\ call'[k].cmd.tab_id \in TabIds) =>
                current_tab_id' = call'[k].cmd.tab_id
       /\ current_tab_id' # current_tab_id =>
            \E k \in Calls : TabChangeCompletes(k)]_vars

\* C12: when an init or open returns a successful result whose payload
\* reports tab T, current_tab_id is T.
C12_OpenInitSetsCurrentTab ==
    [][\A k \in Calls :
        (/\ TabChangeCompletes(k)
         /\ call'[k].cmd.action \in {"init", "open"}
         /\ call'[k].outcome.data \in TabIds) =>
            current_tab_id' = call'[k].outcome.data]_vars

\* An open and an init have returned successful results that report a tab,
\* and that tab is the current one.
C12_Witness ==
    \E k \in Calls :
        /\ Returned(k) /\ call[k].outcome.success
        /\ call[k].cmd.type = "tab" /\ call[k].cmd.action = "init"
        /\ call[k].outcome.data = MaxTab
        /\ current_tab_id = MaxTab

C14_ExecuteNeverRaises ==
    [][\A k \in Calls : Returns(k) =>
        LET out == call'[k].outcome IN
        /\ out.kind \in Exceptions \cup {"result"}
        /\ out.kind \in Exceptions =>
              /\ ~out.success
              /\ out.error = exception_message(out.kind)
              /\ out.command_id = call'[k].cmd.command_id
        /\ call[k].pc = "idle" =>
              /\ out.kind \in {"validation", "no_peer"}
              /\ (out.kind = "validation") <=> (call'[k].cmd \in StaleCommands)
        /\ call[k].pc = "sending" => out.kind \in {"runtime_error", "send_failed"}
        /\ call[k].pc = "cancelling" => out.kind = "timeout"
        /\ call[k].pc = "waiting" =>
              /\ out.kind \in {"result", "malformed_result"}
              /\ (out.kind = "malformed_result") <=>
                    (call[k].fut_val.success = "missing")]_vars

\* A result frame without a success field has been turned into a failure
\* while the peer is still attached.
C14_Witness ==
    \E k \in Calls :
        /\ call[k].pc = "done" /\ call[k].outcome.kind = "malformed_result"
        /\ ~call[k].outcome.success
        /\ connections # {}

\* C15: every CommandResponse with success false that execute returns
\* carries a non-empty error string, whether execute built it from an
\* exception or the peer reported the failure in its result frame.
C15_FailureCarriesError ==
    [][\A k \in Calls :
        (Returns(k) /\ ~call'[k].outcome.success) =>
            call'[k].outcome.error # NoText]_vars

\* C16: health_check returns true at once, dispatching nothing, when no
\* peer is connected; with a peer connected it makes one list-tabs dispatch
\* (one id drawn, one waiter registered, the same command until it returns)
\* and returns that dispatch's success: true exactly when the peer answered
\* with success, false on a failure, a timeout or any other exception.
C16_HealthCheck ==
    [][LET h == HealthCaller IN
       /\ (call[h].pc = "idle" /\ call'[h].pc # "idle" /\ connections = {}) =>
             /\ call'[h].pc = "done"
             /\ call'[h].outcome.success
             /\ call'[h].wire = NoCommand
             /\ response_waiters' = response_waiters
             /\ uuid_count' = uuid_count
       /\ (call[h].pc = "idle" /\ call'[h].pc # "idle" /\ connections # {}) =>
             /\ call'[h].pc = "sending"
             /\ call'[h].wire.type = "get_tabs"
             /\ uuid_count' = uuid_count + 1
             /\ response_waiters'[call'[h].id] = h
       /\ InFlight(h) =>
             /\ uuid_count' = uuid_count \/ \E k \in Calls \ {h} : Dispatches(k)
             /\ call'[h].pc # "done" => /\ call'[h].wire = call[h].wire
                                         /\ call'[h].id = call[h].id
       /\ (InFlight(h) /\ Returns(h)) =>
             call'[h].outcome.success =
                (/\ call[h].pc = "waiting"
                 /\ call[h].fut = "result"
                 /\ call[h].fut_val.success = "true")]_vars

\* The health check has come back false because the attached peer stayed
\* silent until the timeout.
C16_Witness ==
    /\ call[HealthCaller].pc = "done"
    /\ call[HealthCaller].outcome.kind = "timeout"
    /\ ~call[HealthCaller].outcome.success
    /\ connections # {}

\* The commands among the frames a step handed to connection.send.
CommandFrames(rec) == { f \in rec.sent : f.type = "command" }

\* The step in which the broadcast loop of k is left, to wait_for or by an
\* exception.
LoopEnds(k) == call[k].pc = "sending" /\ call'[k].pc # "sending"

\* C17: every command frame the hub sends belongs to a dispatch whose
\* broadcast is running, is that dispatch's serialized command with its
\* correlation id, and goes to a connection of the set the broadcast has not
\* sent on before; the serialized command does not change during the
\* broadcast; and when the broadcast ends it has called send, successfully
\* or not, on every connection that was in the set when it began and is in
\* it still.
C17_BroadcastOnce ==
    [][\A k \in WireCallers :
        /\ \A f \in CommandFrames(observed') :
              /\ call'[k].pc = "sending"
              /\ f.body = call'[k].wire
              /\ f.body.command_id = call'[k].id
              /\ f.conn \in connections
              /\ call[k].pc = "sending" => f.conn \notin observed.tried[k]
              /\ f.conn \in observed'.tried[k]
        /\ (call[k].pc = "sending" /\ call'[k].pc = "sending") =>
              /\ call'[k].wire = call[k].wire
              /\ call'[k].id = call[k].id
              /\ observed'.start[k] = observed.start[k]
        /\ Dispatches(k) => observed'.start[k] = connections
        /\ LoopEnds(k) =>
              (observed.start[k] \cap connections) \subseteq observed.tried[k]]_vars

\* C18: whatever connects or disconnects while a broadcast is running, the
\* broadcast ends having reached every connection that was in the set when
\* it began and is still open, it ends by going on to wait for the result
\* (or, when no send went through, by the failure to send), and every step
\* leaves in the connection set exactly the connections it had, plus those
\* accepted and minus those whose handler ended in that step.
C18_BroadcastUndisturbed ==
    [][\A k \in WireCallers :
        /\ LoopEnds(k) =>
              /\ (observed.start[k] \cap (connections \ closed))
                     \subseteq observed.tried[k]
              /\ \/ call'[k].pc = "waiting"
                 \/ /\ call'[k].pc = "done"
                    /\ call'[k].outcome.kind = "send_failed"
        /\ connections' =
              (connections \cup (observed'.running \ observed.running))
                 \ (observed.running \ observed'.running)]_vars

\* C19: the connection set is the set of connections whose handler is
\* running, is_connected() says whether there is such a connection and
\* get_connection_count() how many there are; a connection whose greeting
\* or whose reply could not be sent is in neither.
C19_SetIsRunningHandlers ==
    /\ connections = observed.running
    /\ is_connected(connections) = (observed.running # {})
    /\ get_connection_count(connections) = Cardinality(observed.running)
    /\ \A f \in observed.sent :
          (f.type \in {"connected", "pong", "error"} /\ ~f.ok) =>
             f.conn \notin connections

\* One peer is attached and is counted, after the handler of another has
\* ended because its reply to a ping could not be sent.
C19_Witness ==
    /\ observed.recv.type = "ping"
    /\ \E f \in observed.sent : f.conn = observed.recv.conn /\ ~f.ok
    /\ observed.recv.conn \notin connections
    /\ get_connection_count(connections) = 1
    /\ is_connected(connections)

\* The step has read text that is not JSON off connection c.
ReadsGarbage(c) ==
    observed'.recv.conn = c /\ observed'.recv.type = "garbage"

\* C20: a step that reads an unparseable frame off an open connection sends
\* one error frame, on that connection, and changes nothing: the connection
\* set, the pending table, current_tab_id and every call stay as they were,
\* so that every dispatch goes on from the state it would have been in, and
\* the handler is still running.  Off a connection whose peer is gone the
\* error frame cannot be sent and the handler ends as it would have on its
\* next read: the connection leaves the set and nothing else changes.
C20_GarbageOnlyAnswered ==
    [][\A c \in Conns : ReadsGarbage(c) =>
        /\ c \in connections
        /\ observed'.sent =
              {[conn |-> c, type |-> "error", body |-> NoCommand,
                ok |-> c \notin closed]}
        /\ response_waiters' = response_waiters
        /\ current_tab_id' = current_tab_id
        /\ uuid_count' = uuid_count
        /\ call' = call
        /\ observed'.start = observed.start
        /\ observed'.tried = observed.tried
        /\ IF c \notin closed
           THEN /\ connections' = connections
                /\ closed' = closed
                /\ c \in observed'.running
           ELSE /\ connections' = connections \ {c}
                /\ closed' = closed \ {c}
                /\ observed'.running = observed.running \ {c}]_vars

\* An error frame has gone back on an open connection while a dispatch is
\* waiting for its result and another peer is attached.
C20_Witness ==
    /\ observed.recv.type = "garbage"
    /\ \E f \in observed.sent :
          f.type = "error" /\ f.ok /\ f.conn = observed.recv.conn
    /\ observed.recv.conn \in connections
    /\ Cardinality(connections) = 2
    /\ \E k \in WireCallers :
          call[k].pc = "waiting" /\ response_waiters[call[k].id] = k

\* The step has read a ping off connection c.
ReadsPing(c) ==
    observed'.recv.conn = c /\ observed'.recv.type = "ping"

\* C21: the step that reads a ping off an open connection sends one pong,
\* on that connection and on no other, in the same stretch as the read (so
\* before the handler reads that connection again), and leaves the pending
\* table, the calls and the connection set as they were.  Off a connection
\* whose peer is gone neither the pong nor the error frame that follows its
\* failure can be sent, and the handler ends; the pending table is untouched
\* there too.
C21_PingAnsweredByPong ==
    [][\A c \in Conns : ReadsPing(c) =>
        /\ c \in connections
        /\ response_waiters' = response_waiters
        /\ call' = call
        /\ current_tab_id' = current_tab_id
        /\ IF c \notin closed
           THEN /\ observed'.sent =
                      {[conn |-> c, type |-> "pong", body |-> NoCommand,
                        ok |-> TRUE]}
                /\ connections' = connections
                /\ c \in observed'.running
           ELSE /\ \A f \in observed'.sent :
                      f.conn = c /\ ~f.ok /\ f.type \in {"pong", "error"}
                /\ Cardinality({f \in observed'.sent : f.type = "pong"}) = 1
                /\ connections' = connections \ {c}]_vars

\* A pong has gone back on one of two attached connections while a dispatch
\* is waiting for its result.
C21_Witness ==
    /\ observed.recv.type = "ping"
    /\ observed.sent =
          {[conn |-> observed.recv.conn, type |-> "pong", body |-> NoCommand,
            ok |-> TRUE]}
    /\ Cardinality(connections) = 2
    /\ \E k \in WireCallers :
          call[k].pc = "waiting" /\ response_waiters[call[k].id] = k

\* C22: of every connection whose handler is running, the first frame
\* handed to send since it was accepted is the greeting, and it has been
\* sent one greeting; a greeting goes only to a connection accepted in that
\* step.
C22_GreetingFirstAndOnce ==
    [][/\ \A c \in observed'.running :
            /\ observed'.first[c] = "connected"
            /\ observed'.greetings[c] = 1
       /\ \A f \in observed'.sent :
            f.type = "connected" => f.conn \notin observed.running]_vars

\* A connection accepted while a broadcast was running has been sent the
\* command of that broadcast after its greeting.
C22_Witness ==
    \E k \in WireCallers, f \in CommandFrames(observed) :
        /\ call[k].pc = "sending"
        /\ f.conn \notin observed.start[k]
        /\ observed.first[f.conn] = "connected"
        /\ observed.greetings[f.conn] = 1

\* The step in which caller k enters execute with a command.
Enters(k) == call[k].pc = "idle" /\ call'[k].pc # "idle"

\* C23: an execute whose command does not pass parse_command after the
\* rewrite returns the validation failure in the step it was called in,
\* having sent no frame, registered no waiter and drawn no id; and every
\* command frame that is sent carries a command parse_command accepts.
C23_InvalidNeverTransmitted ==
    [][\A k \in Calls :
        /\ (Enters(k)
              /\ parse_fails(prepare_command_dict(call'[k].cmd, current_tab_id))) =>
              /\ call'[k].pc = "done"
              /\ call'[k].outcome.kind = "validation"
              /\ ~call'[k].outcome.success
              /\ observed'.sent = {}
              /\ response_waiters' = response_waiters
              /\ uuid_count' = uuid_count
        /\ \A f \in CommandFrames(observed') : ~parse_fails(f.body)]_vars

\* A tab command whose action is no TabAction has been refused while a peer
\* was attached to take it.
C23_Witness ==
    /\ call[1].pc = "done"
    /\ call[1].outcome.kind = "validation"
    /\ call[1].cmd \in StaleCommands
    /\ 1 \in connections \ closed

\* A tab command has been built, by its class or by parse_command.
BuiltTab == built.stage # "given" /\ built.first.ok /\ built.first.value.type = "tab"

\* C24: no tab command is built whose target is missing: an open or init
\* has a URL, a close, switch or refresh has a tab id; hence none such is
\* serialized and parsed again on its way to dispatch.
C24_TabTargetRequired ==
    BuiltTab =>
        /\ built.first.value.action \in {"open", "init"} =>
              ~falsy_text(built.first.value.url)
        /\ built.first.value.action \in {"close", "switch", "refresh"} =>
              built.first.value.tab_id # None
        /\ (built.stage = "parsed again" /\ built.again.ok) =>
              /\ built.again.value.action \in {"open", "init"} =>
                    ~falsy_text(built.again.value.url)
              /\ built.again.value.action \in {"close", "switch", "refresh"} =>
                    built.again.value.tab_id # None

\* parse_command has been applied to given.
Parsed == built.stage # "given" /\ built.by = "parse_command"

\* C25: parse_command turns a dict of each of the ten kinds into the
\* command of that kind, or refuses it for one of its fields but never as
\* an unknown kind; it keeps the fields the dict gives; it refuses every
\* other kind and a missing kind by name; and a key no class declares
\* changes nothing in the outcome.
C25_ParseByKind ==
    Parsed =>
        LET r == built.first
            kind == given.type
        IN /\ kind \in command_map \cup {"javascript_execute"} =>
                /\ r.error \notin {"Unknown command type",
                                    "Command must have 'type' field"}
                /\ r.ok => /\ r.value.type = kind
                           /\ given.action # Missing => r.value.action = given.action
                           /\ given.tab_id # Absent => r.value.tab_id = given.tab_id
                           /\ given.dx # Absent => r.value.dx = given.dx
                           /\ given.key # Missing => r.value.key = given.key
                           /\ given.command_id # Absent =>
                                 r.value.command_id = given.command_id
           /\ kind \notin command_map \cup {"javascript_execute"} =>
                /\ ~r.ok
                /\ r.error \in {"Unknown command type",
                                 "Command must have 'type' field"}
           /\ r = parse_command_data([given EXCEPT !.extra = FALSE])

\* The command built first has been serialized and parsed again.
ParsedAgain == built.stage = "parsed again"

\* C26: parse_command applied to the dict of a command returns a command,
\* and that command equals the one the dict was taken from.
C26_RoundTrip ==
    ParsedAgain =>
        /\ built.again.ok
        /\ built.again.value = built.first.value

\* ---------------------------------------------------------------------
\* Coordinate mapping

MappedBy(by) == built.stage = "mapped" /\ built.by = by

\* The input clamped to the logical bounds, scaled by actual / logical and
\* truncated, in exact arithmetic.
clamped_scaled_truncated(v, actual, preset) ==
    (max(0, min(v, preset - 1)) * actual) \div preset

\* C27: for every integer point and every mapping with positive dimensions,
\* preset_to_actual does not raise, returns a point of the actual
\* resolution, and that point is the input clamped to the logical bounds,
\* scaled by actual / logical and truncated to an integer.
C27_ToActualClampedScaledTruncated ==
    MappedBy("preset_to_actual") =>
        LET m == given.mapping
            p == built.result.value
        IN  /\ built.result.ok
            /\ 0 <= p[1] /\ p[1] <= m.actual_width - 1
            /\ 0 <= p[2] /\ p[2] <= m.actual_height - 1
            /\ p[1] = clamped_scaled_truncated(given.x, m.actual_width,
                                               m.preset_width)
            /\ p[2] = clamped_scaled_truncated(given.y, m.actual_height,
                                               m.preset_height)

\* The point handed in lies within the logical resolution.
InBounds ==
    /\ 0 <= given.x /\ given.x <= given.mapping.preset_width - 1
    /\ 0 <= given.y /\ given.y <= given.mapping.preset_height - 1

within_one(a, b) == abs(a - b) <= 1

\* C28 as stated: for every mapping, larger or smaller than the logical
\* resolution, and every in-bounds logical point, actual_to_preset of
\* preset_to_actual differs from the point by at most 1 in each coordinate.
C28_RoundTripWithinOne ==
    (MappedBy("round_trip") /\ InBounds) =>
        /\ within_one(built.result.value[1], given.x)
        /\ within_one(built.result.value[2], given.y)

\* C28, amended: for every mapping and every in-bounds logical point,
\* actual_to_preset of preset_to_actual differs from the point by at most 1
\* in each coordinate whose actual dimension is at least the logical one.
C28_RoundTripWithinOneEnlarged ==
    (MappedBy("round_trip") /\ InBounds) =>
        LET m == given.mapping
        IN  /\ m.actual_width >= m.preset_width
                => within_one(built.result.value[1], given.x)
            /\ m.actual_height >= m.preset_height
                => within_one(built.result.value[2], given.y)

\* A round trip through a mapping larger than the logical resolution in
\* both dimensions that comes back one unit off in each coordinate.
C28_Witness ==
    /\ MappedBy("round_trip") /\ InBounds
    /\ given.mapping.actual_width > given.mapping.preset_width
    /\ given.mapping.actual_height > given.mapping.preset_height
    /\ built.result.value[1] = given.x - 1
    /\ built.result.value[2] = given.y - 1

\* The exact scaled delta lies within one unit of the returned one, on the
\* far side of it from zero, and has its sign.
scaled_delta(r, d, actual, preset) ==
    /\ (d >= 0 => r >= 0) /\ (d <= 0 => r <= 0)
    /\ preset * abs(r) <= actual * abs(d)
    /\ actual * abs(d) <= preset * (abs(r) + 1)

IsExample == given.mapping = Mapping(1280, 720, 2560, 1440, None, None)

IsPixel ==
    /\ given.screenshot_width > 0 /\ given.screenshot_height > 0
    /\ 0 <= given.x /\ given.x < given.screenshot_width
    /\ 0 <= given.y /\ given.y < given.screenshot_height

\* C30: screenshot_to_viewport raises whenever a viewport dimension of the
\* mapping was never recorded; with both recorded it returns, for every
\* pixel of a screenshot of positive width and height, a point with
\* 0 <= x <= viewport_width - 1 and 0 <= y <= viewport_height - 1.
C30_ViewportRequired ==
    MappedBy("screenshot_to_viewport") =>
        LET m == given.mapping
            p == built.result.value
        IN  /\ (m.viewport_width = None \/ m.viewport_height = None)
                => /\ ~built.result.ok
                   /\ built.result.error = "Viewport dimensions not set"
            /\ (m.viewport_width > 0 /\ m.viewport_height > 0 /\ IsPixel)
                => /\ built.result.ok
                   /\ 0 <= p[1] /\ p[1] <= m.viewport_width - 1
                   /\ 0 <= p[2] /\ p[2] <= m.viewport_height - 1

\* The call failed for a mapping whose viewport width was recorded and whose
\* viewport height was not.
C30_Witness ==
    /\ MappedBy("screenshot_to_viewport")
    /\ IsPixel
    /\ given.mapping.viewport_width > 0
    /\ given.mapping.viewport_height = None
    /\ ~built.result.ok

\* ---------------------------------------------------------------------
\* Coordinate manager

\* The call of k returns in this step with the peer's successful result of
\* closing tab t.
CloseCompletes(k, t) ==
    /\ Returns(k)
    /\ call'[k].cmd.type = "tab"
    /\ call'[k].cmd.action = "close"
    /\ call[k].wire.tab_id = t
    /\ call'[k].outcome.kind = "result"
    /\ call'[k].outcome.success

\* C31: when a close of tab T completes successfully, the coordinate
\* manager holds no mapping for T.
C31_ClosedTabHasNoMapping ==
    [][\A k \in Calls, t \in TabIds :
           CloseCompletes(k, t) => t \notin DOMAIN mappings']_vars

\* ---------------------------------------------------------------------
\* Session state under concurrent callers

\* The call of k is between its dispatch and its return.
Awaiting(k) == call[k].pc \in {"sending", "waiting"}

\* C32: the tab id filled into a command is the value current_tab_id has in
\* the step that rewrites and registers it, and the command keeps it however
\* current_tab_id changes before the call returns; current_tab_id changes
\* only in the step in which a call returns with its own successful result,
\* and then to the tab of that call.
C32_RewriteAndWriteDoNotRace ==
    [][/\ \A k \in Calls :
            (call[k].pc = "idle" /\ call'[k].pc \in {"sending", "waiting"}
                /\ call'[k].cmd.type = "screenshot") =>
                /\ call'[k].wire.tab_id = current_tab_id
                /\ response_waiters'[call'[k].id] = k
                /\ current_tab_id' = current_tab_id
       /\ \A k \in Calls :
            (Awaiting(k) /\ call'[k].pc \in {"sending", "waiting"}) =>
                call'[k].wire = call[k].wire
       /\ current_tab_id' # current_tab_id =>
            \E k \in Calls :
                /\ TabChangeCompletes(k)
                /\ current_tab_id' = call'[k].cmd.tab_id]_vars

\* A screenshot dispatched while no tab was current is still awaited after
\* another call's switch has made a tab current.
C32_Witness ==
    \E k \in Calls :
        /\ Awaiting(k)
        /\ call[k].cmd.type = "screenshot"
        /\ call[k].wire.tab_id = None
        /\ current_tab_id \in TabIds

\* ---------------------------------------------------------------------
\* Frames and connections against the pending table

\* A result frame is read in this step under an id that has no entry in
\* response_waiters.
ReadsUnmatched ==
    /\ observed'.recv.conn \in Conns
    /\ is_result_frame(observed'.recv)
    /\ waiter_of(response_waiters, observed'.recv) = None

GoesAway(c) ==
    \/ c \in connections /\ c \notin connections'
    \/ c \notin closed /\ c \in closed'

\* The call of k awaits its result: it is in wait_for and holds the entry of
\* its id.
AwaitsResult(k) ==
    /\ call[k].pc = "waiting"
    /\ call[k].fut = "pending"
    /\ response_waiters[call[k].id] = k

\* C34: a step in which a connection closes or is removed leaves every call
\* that awaits a result as it was, its entry in response_waiters included,
\* also when no connection is left.
C34_CloseLeavesPendingCalls ==
    [][\A c \in Conns :
           GoesAway(c) =>
               /\ response_waiters' = response_waiters
               /\ \A k \in Calls :
                      AwaitsResult(k) => call'[k] = call[k]]_vars

\* A call awaits its result although the last connection has gone.
C34_Witness ==
    /\ connections = {}
    /\ observed.running = {}
    /\ \E k \in Calls : AwaitsResult(k) /\ ~call[k].timer

\* C35: every entry of response_waiters belongs to a dispatch that has not
\* yet returned: once a dispatch has returned or failed, for whatever
\* reason, its id is not in the table.
C35_TableHoldsOnlyAwaited ==
    \A i \in Ids :
        response_waiters[i] # None =>
            \E k \in Calls :
                /\ response_waiters[i] = k
                /\ call[k].pc \in {"sending", "waiting", "cancelling"}
                /\ call[k].id = i

\* A frame with a correlation id, typed "command_response" or carrying no
\* type at all, is read in this step from connection c while the Future
\* stored under that id is pending; k is the call that owns it.
ReadsResultFor(c, k) ==
    /\ observed'.recv.conn = c
    /\ observed'.recv.type \in {"command_response", "none"}
    /\ observed'.recv.command_id \in Ids
    /\ response_waiters[observed'.recv.command_id] = k
    /\ call[k].fut = "pending"

\* C36: a result frame resolves the pending call stored under its id
\* whichever connection delivers it, one that was not handed the command
\* included, and a frame with a command_id and no type does the same.
C36_CorrelationByIdAlone ==
    [][\A c \in Conns, k \in Calls :
           ReadsResultFor(c, k) =>
               /\ call'[k].fut = "result"
               /\ call'[k].fut_val.command_id = observed'.recv.command_id
               /\ response_waiters'[observed'.recv.command_id] = None]_vars

\* A frame without a type has resolved a call from a connection that was
\* not among those the command had been handed to.
C36_Witness ==
    \E k \in Calls :
        /\ observed.recv.type = "none"
        /\ observed.recv.command_id = call[k].id
        /\ call[k].fut = "result"
        /\ call[k].pc = "sending"
        /\ observed.recv.conn \in connections \ observed.tried[k]


\* C37: every command handed to a connection carries a correlation id, and
\* the CommandResponse that execute returns for a dispatch carries the id
\* the dispatch went out under, whether a peer answered or the hub gave up.
C37_ResultCarriesWireId ==
    /\ \A f \in observed.sent :
           f.type = "command" => f.body.command_id \in Ids
    /\ \A k \in Calls :
           (/\ call[k].pc = "done"
            /\ call[k].id # None
            /\ call[k].outcome.kind # "raised")
               => call[k].outcome.command_id = call[k].id

\* get_tabs(managed_only) of GET /tabs and of ChromeCLIClient: the dict
\* {"type": "get_tabs", "managed_only": managed_only}.  Whatever the flag
\* is, managed_only is a key that GetTabsCommand does not declare.
ListTabsRequest == [Blank("get_tabs") EXCEPT !.extra = TRUE]

\* The dict send_command serializes for a command that was parsed from data.
DispatchedDict == to_dict(built.first.value)

\* C38: the managed_only key of a list-tabs request is still a key of the
\* get_tabs command that is serialized for the peer.
C38_ManagedOnlyReachesPeer ==
    (given = ListTabsRequest /\ Parsed) =>
        /\ built.first.ok
        /\ DispatchedDict.type = "get_tabs"
        /\ DispatchedDict.extra

\* timeout_seconds have gone by since the last event and the generator has
\* not ended.
IdleForTimeout == stream.idle /\ stream.pc \notin {"none", "ended"}

TimeoutError == SSEEvent("error", "timeout", 0)

EndsOnTimeout ==
    /\ stream.pc = "ended"
    /\ stream.yielded # <<>>
    /\ stream.yielded[Len(stream.yielded)] = TimeoutError

\* C39: when timeout_seconds pass without an event from the conversation
\* thread, the generator yields the timeout error and ends (unless an event
\* does arrive or the stream ends otherwise first), whether or not the
\* thread ever finishes.
C39_IdleStreamTimesOut ==
    IdleForTimeout ~> (EndsOnTimeout \/ ~IdleForTimeout)

IsTerminal(e) == e.type \in {"complete", "error"}

Terminals(events) == { i \in 1..Len(events) : IsTerminal(events[i]) }

\* C40: once the conversation thread has finished and the generator has
\* ended, the consumer has been handed every event that was put into the
\* queue, in that order, exactly one of them terminal and that one last,
\* and the visualizer no longer holds the queue.
C40_AllDeliveredOneTerminal ==
    (stream.pc = "ended" /\ stream.thread = "finished") =>
        /\ stream.yielded = stream.queued
        /\ Cardinality(Terminals(stream.yielded)) = 1
        /\ IsTerminal(stream.yielded[Len(stream.yielded)])
        /\ ~stream.attached
====
